---- MODULE Spec2Model ----
(***************************************************************************)
(* Event delivery pumps of mah-rs.                                         *)
(*                                                                         *)
(* Pull pump: HttpAdapterEvents::listen (mah_http_adapter/src/lib.rs).     *)
(* One background task fetches batches of events and hands them, one by    *)
(* one, to a bounded tokio mpsc channel; the consumer owns the receiver.   *)
(* The task is cut at its suspension points: awaiting the transport's      *)
(* response, awaiting the poll-interval timeout, awaiting channel          *)
(* capacity.                                                               *)
(***************************************************************************)
EXTENDS Integers, Sequences, FiniteSets, TLC

(* ------------------------------ bounds -------------------------------- *)

\* HttpAdapterEvents.batch_size: the count sent with every fetchMessage.
BatchSize == 2

\* HttpAdapterEvents.buffer: capacity of the bounded channel.
Buffer == 1

\* HttpAdapterEvents.poll_interval, in clock ticks.
PollInterval == 1

\* Events the transport returns while the consumer holds the channel open.
MaxProduced == 3

\* Failing fetches the transport answers with.
MaxErrors == 1

(* --------------------------- wire values ------------------------------ *)

\* Decodable envelopes (MessageOrEvent values), by identity.
Events == {"a", "b"}

\* A record of a batch that does not decode as MessageOrEvent.
BadRecord == "bad"

Records == Events \cup {BadRecord}

\* The largest u16 (adapter::Error.code is a NonZeroU16).
MaxU16 == 65535

\* Remote rejection codes used by the transport (adapter::Error.code).
MiraiCodes == {3}

RECURSIVE SeqsUpTo(_, _)
\* All sequences over S of length at most n.
SeqsUpTo(S, n) ==
    IF n = 0 THEN {<<>>}
    ELSE LET shorter == SeqsUpTo(S, n - 1)
         IN  shorter \cup {Append(s, x) : s \in {t \in shorter : Len(t) = n - 1}, x \in S}

\* What the transport can answer to one fetchMessage request:
\* a network failure, a {code, msg} rejection, or {code: 0, data: [...]}.
Responses ==
    {[kind |-> "neterr", code |-> 0, data |-> <<>>]}
    \cup {[kind |-> "body", code |-> c, data |-> <<>>] : c \in MiraiCodes}
    \cup {[kind |-> "body", code |-> 0, data |-> d] : d \in SeqsUpTo(Records, BatchSize)}

NoResp == [kind |-> "none", code |-> 0, data |-> <<>>]

(* ------------------------------ state --------------------------------- *)

VARIABLES
    pc,        \* position of the spawned task
    resp,      \* the transport's answer to the outstanding fetch, or NoResp
    events,    \* the fetched batch, the part not yet handed to the channel
    chan,      \* contents of the bounded channel
    rx,        \* the receiver: "open", "closed" (rx.close()), "dropped"
    timer,     \* ticks left of the current poll-interval timeout
    received,  \* what the consumer has taken out of the channel, in order
    errlog,    \* the arguments on_error has been called with, in order
    produced,  \* history: events of the decodable batches the transport returned
    failed     \* history: the errors of the failing answers the transport returned

pullvars == <<pc, resp, events, chan, rx, timer, received, errlog, produced, failed>>

\* Push pump: WebhookAdapterEvents::listen (mah_webhook_adapter/src/lib.rs).
VARIABLES
    reqs,       \* per connection: its state, the pushed payload, the status answered
    wchan,      \* contents of the unbounded channel, each item with its request
    wrx,        \* the receiver: "open", "closed" (rx.close()), "dropped"
    wreceived,  \* what the consumer has taken out of the channel, in order
    werrs,      \* the requests whose rejection on_error has been called with
    listener    \* the server: "serving", "draining" (graceful shutdown), "stopped"

pushvars == <<reqs, wchan, wrx, wreceived, werrs, listener>>

\* Message conversion and encoding (mah_core/src/message.rs).
VARIABLES
    incoming,   \* the incoming node handed to the conversion, or NoNode
    converted,  \* the conversion's result, or NotYet
    encoded,    \* the encoding of the converted node, or NotYet
    wire,       \* the JSON handed to a decoder, with the decoder's kind, or NoWire
    decoded,    \* the decoder's result, or NotYet
    args        \* the value handed to an encoder, with the encoder's kind, or NoArgs

codecvars == <<incoming, converted, encoded, wire, decoded, args>>

vars == <<pullvars, pushvars, codecvars>>

(* --------------------------- pure helpers ----------------------------- *)

\* Variant: the records that decode are kept and the others skipped.
DecodeBatchSkipsBad(data) ==
    [ok |-> TRUE, err |-> "none", events |-> SelectSeq(data, LAMBDA r : r # BadRecord)]

\* Vec<MessageOrEvent>::deserialize: every record must decode.
DecodeBatch(data) ==
    IF \E i \in 1..Len(data) : data[i] = BadRecord
    THEN [ok |-> FALSE, err |-> "Json", events |-> <<>>]
    ELSE [ok |-> TRUE, err |-> "none", events |-> data]

\* HttpAdapterHandler::validate + data, as used by fetch_message.
FetchMessage(r) ==
    IF r.kind = "neterr" THEN [ok |-> FALSE, err |-> "Fetch", events |-> <<>>]
    ELSE IF r.code \in 1..MaxU16 THEN [ok |-> FALSE, err |-> "Mirai", events |-> <<>>]
    ELSE DecodeBatch(r.data)

RECURSIVE Reverse(_)
Reverse(s) == IF s = <<>> THEN <<>> ELSE Append(Reverse(Tail(s)), Head(s))

\* Variant: the batch is drained from its back (events.pop()).
IntoIterFromBack(batch) == Reverse(batch)

\* `for event in events`: the order in which a batch is handed off.
IntoIter(batch) == batch

\* Variant: tx.try_send(event), which fails on a full channel instead of waiting.
SendOutcomeTrySend(len, rxstate) ==
    IF rxstate # "open" THEN "err"
    ELSE IF len < Buffer THEN "ok"
    ELSE "err"

\* tx.send(event).await on the bounded channel: Err once the receiver is
\* closed or dropped, otherwise Ok as soon as there is capacity.
SendOutcome(len, rxstate) ==
    IF rxstate # "open" THEN "err"
    ELSE IF len < Buffer THEN "ok"
    ELSE "pending"

\* Variant: sleep(poll_interval).await, then `if tx.is_closed() { return }`.
TimeoutOutcomeSleepFirst(left, rxstate) ==
    IF left > 0 THEN "pending"
    ELSE IF rxstate # "open" THEN "ok"
    ELSE "elapsed"

\* Variant: tx.closed() polled once, without a timer (the interval is not waited).
TimeoutOutcomeNoTimer(left, rxstate) ==
    IF rxstate # "open" THEN "ok" ELSE "elapsed"

\* tokio::time::timeout(poll_interval, tx.closed()).await: the inner future is
\* polled first, the deadline second.
TimeoutOutcome(left, rxstate) ==
    IF rxstate # "open" THEN "ok"
    ELSE IF left = 0 THEN "elapsed"
    ELSE "pending"

Closed == rx # "open"

(* ------------------------------ Init ---------------------------------- *)

PullInit ==
    /\ pc = "start"
    /\ resp = NoResp
    /\ events = <<>>
    /\ chan = <<>>
    /\ rx = "open"
    /\ timer = 0
    /\ received = <<>>
    /\ errlog = <<>>
    /\ produced = <<>>
    /\ failed = <<>>

(* --------------------------- the pump task ---------------------------- *)

\* The spawned task is polled for the first time and issues the first fetch.
Start ==
    /\ pc = "start"
    /\ pc' = "fetching"
    /\ UNCHANGED <<resp, events, chan, rx, timer, received, errlog, produced, failed, pushvars, codecvars>>

\* fetch_message returned Ok with a non-empty batch: break out of the inner loop.
FetchOk ==
    /\ pc = "fetching"
    /\ resp # NoResp
    /\ FetchMessage(resp).ok
    /\ FetchMessage(resp).events # <<>>
    /\ events' = IntoIter(FetchMessage(resp).events)
    /\ pc' = "send"
    /\ resp' = NoResp
    /\ UNCHANGED <<chan, rx, timer, received, errlog, produced, failed, pushvars, codecvars>>

\* fetch_message returned Ok(empty): fall through to the timeout.
FetchEmpty ==
    /\ pc = "fetching"
    /\ resp # NoResp
    /\ FetchMessage(resp).ok
    /\ FetchMessage(resp).events = <<>>
    /\ pc' = "wait"
    /\ timer' = PollInterval
    /\ resp' = NoResp
    /\ UNCHANGED <<events, chan, rx, received, errlog, produced, failed, pushvars, codecvars>>

\* Variant: the error is reported and the task returns (`return` after on_error).
FetchErrReturns ==
    /\ pc = "fetching"
    /\ resp # NoResp
    /\ ~FetchMessage(resp).ok
    /\ errlog' = Append(errlog, FetchMessage(resp).err)
    /\ pc' = "done"
    /\ resp' = NoResp
    /\ UNCHANGED <<events, chan, rx, timer, received, produced, failed, pushvars, codecvars>>

\* fetch_message returned Err: on_error(err), then the timeout.
FetchErr ==
    /\ pc = "fetching"
    /\ resp # NoResp
    /\ ~FetchMessage(resp).ok
    /\ errlog' = Append(errlog, FetchMessage(resp).err)
    /\ pc' = "wait"
    /\ timer' = PollInterval
    /\ resp' = NoResp
    /\ UNCHANGED <<events, chan, rx, received, produced, failed, pushvars, codecvars>>

\* The timeout ends with Ok: tx.closed() resolved, the task returns.
WaitClosed ==
    /\ pc = "wait"
    /\ TimeoutOutcome(timer, rx) = "ok"
    /\ pc' = "done"
    /\ UNCHANGED <<resp, events, chan, rx, timer, received, errlog, produced, failed, pushvars, codecvars>>

\* The timeout ends with Err(Elapsed): next iteration of the inner loop.
WaitElapsed ==
    /\ pc = "wait"
    /\ TimeoutOutcome(timer, rx) = "elapsed"
    /\ pc' = "fetching"
    /\ UNCHANGED <<resp, events, chan, rx, timer, received, errlog, produced, failed, pushvars, codecvars>>

\* Variant: an event equal to the one handed off last is skipped (deduplication).
SendOkDedup ==
    /\ pc = "send"
    /\ SendOutcome(Len(chan), rx) = "ok"
    /\ LET last == received \o chan
           dup == last # <<>> /\ last[Len(last)] = Head(events)
       IN  chan' = IF dup THEN chan ELSE Append(chan, Head(events))
    /\ events' = Tail(events)
    /\ pc' = IF Tail(events) = <<>> THEN "fetching" ELSE "send"
    /\ UNCHANGED <<resp, rx, timer, received, errlog, produced, failed, pushvars, codecvars>>

\* tx.send(event).await is Ok: the event is in the channel. After the last
\* event of the batch the outer loop issues the next fetch.
SendOk ==
    /\ pc = "send"
    /\ SendOutcome(Len(chan), rx) = "ok"
    /\ chan' = Append(chan, Head(events))
    /\ events' = Tail(events)
    /\ pc' = IF Tail(events) = <<>> THEN "fetching" ELSE "send"
    /\ UNCHANGED <<resp, rx, timer, received, errlog, produced, failed, pushvars, codecvars>>

\* Variant: the failed hand-off is reported to the sink.
SendErrReports ==
    /\ pc = "send"
    /\ SendOutcome(Len(chan), rx) = "err"
    /\ events' = Tail(events)
    /\ errlog' = Append(errlog, "Send")
    /\ pc' = IF Tail(events) = <<>> THEN "fetching" ELSE "send"
    /\ UNCHANGED <<resp, chan, rx, timer, received, produced, failed, pushvars, codecvars>>

\* tx.send(event).await is Err: `let _ =` drops the event and the error.
SendErr ==
    /\ pc = "send"
    /\ SendOutcome(Len(chan), rx) = "err"
    /\ events' = Tail(events)
    /\ pc' = IF Tail(events) = <<>> THEN "fetching" ELSE "send"
    /\ UNCHANGED <<resp, chan, rx, timer, received, errlog, produced, failed, pushvars, codecvars>>

Pump == Start \/ FetchOk \/ FetchEmpty \/ FetchErr \/ WaitClosed \/ WaitElapsed \/ SendOk \/ SendErr

(* ---------------------------- environment ----------------------------- *)

\* The transport answers the outstanding fetch. The histories are kept while
\* they have room; after the consumer closed the channel nothing fetched can
\* be received any more, and a batch is no longer recorded.
TransportRespond ==
    /\ pc = "fetching"
    /\ resp = NoResp
    /\ \E r \in Responses :
         /\ resp' = r
         /\ IF ~FetchMessage(r).ok
            THEN /\ Len(failed) < MaxErrors
                 /\ failed' = Append(failed, FetchMessage(r).err)
                 /\ produced' = produced
            ELSE /\ failed' = failed
                 /\ IF Closed
                    THEN produced' = produced
                    ELSE /\ Len(produced) + Len(r.data) <= MaxProduced
                         /\ produced' = produced \o r.data
    /\ UNCHANGED <<pc, events, chan, rx, timer, received, errlog, pushvars, codecvars>>

\* One tick of the clock while the task sleeps in the timeout.
Tick ==
    /\ pc = "wait"
    /\ timer > 0
    /\ timer' = timer - 1
    /\ UNCHANGED <<pc, resp, events, chan, rx, received, errlog, produced, failed, pushvars, codecvars>>

\* rx.recv().await yields the oldest buffered event.
Recv ==
    /\ rx \in {"open", "closed"}
    /\ chan # <<>>
    /\ received' = Append(received, Head(chan))
    /\ chan' = Tail(chan)
    /\ UNCHANGED <<pc, resp, events, rx, timer, errlog, produced, failed, pushvars, codecvars>>

\* rx.close(): no further sends; buffered events stay receivable.
Close ==
    /\ rx = "open"
    /\ rx' = "closed"
    /\ UNCHANGED <<pc, resp, events, chan, timer, received, errlog, produced, failed, pushvars, codecvars>>

\* The receiver is dropped: buffered events are lost.
Drop ==
    /\ rx \in {"open", "closed"}
    /\ rx' = "dropped"
    /\ chan' = <<>>
    /\ UNCHANGED <<pc, resp, events, timer, received, errlog, produced, failed, pushvars, codecvars>>

(* ============================ push pump =============================== *)

\* Connections the listener serves.
MaxRequests == 2

ReqIds == 1..MaxRequests

\* warp::body::content_length_limit(0x10000)
BodyLimit == 65536

\* warp::http::StatusCode::NO_CONTENT and BAD_REQUEST
StatusNoContent == 204
StatusBadRequest == 400

\* Pushed requests: whether a Content-Length header is sent and its value, and
\* the body: the JSON of an envelope, JSON that is no envelope, or no JSON.
Payloads ==
    { [hasLen |-> TRUE,  len |-> 2,             text |-> "a"],
      [hasLen |-> TRUE,  len |-> BodyLimit,     text |-> "b"],
      [hasLen |-> TRUE,  len |-> BodyLimit + 1, text |-> "a"],
      [hasLen |-> TRUE,  len |-> 2,             text |-> "notjson"],
      [hasLen |-> TRUE,  len |-> 2,             text |-> "badenv"],
      [hasLen |-> FALSE, len |-> 0,             text |-> "a"] }

NoPayload == [hasLen |-> FALSE, len |-> 0, text |-> "none"]

IdleReq == [st |-> "idle", body |-> NoPayload, status |-> 0]

\* warp::body::content_length_limit: the header is required and its value
\* must not exceed the limit.
ContentLengthLimit(p) == p.hasLen /\ p.len <= BodyLimit

\* Variant: the body is decoded as any JSON value (serde_json::Value).
BodyJsonAnyValue(p) ==
    IF p.text # "notjson"
    THEN [ok |-> TRUE, value |-> p.text]
    ELSE [ok |-> FALSE, value |-> "none"]

\* warp::body::json::<MessageOrEvent>(): the body must be JSON and decode as
\* an envelope.
BodyJson(p) ==
    IF p.text \in Events
    THEN [ok |-> TRUE, value |-> p.text]
    ELSE [ok |-> FALSE, value |-> "none"]

\* The route: both filters pass, or the request is rejected and recovered.
RouteAccepts(p) == ContentLengthLimit(p) /\ BodyJson(p).ok

\* UnboundedSender::send: Err once the receiver is closed or dropped.
UnboundedSendOk(rxstate) == rxstate = "open"

PushInit ==
    /\ reqs = [r \in ReqIds |-> IdleReq]
    /\ wchan = <<>>
    /\ wrx = "open"
    /\ wreceived = <<>>
    /\ werrs = <<>>
    /\ listener = "serving"

\* The listener accepts a connection carrying one pushed request.
Push ==
    /\ listener = "serving"
    /\ \E r \in ReqIds, p \in Payloads :
         /\ reqs[r].st = "idle"
         /\ reqs' = [reqs EXCEPT ![r] = [st |-> "inflight", body |-> p, status |-> 0]]
    /\ UNCHANGED <<wchan, wrx, wreceived, werrs, listener, pullvars, codecvars>>

\* Variant: a bounded channel of Buffer items; the closure waits for a free
\* slot before it answers.
ForwardBounded ==
    /\ \E r \in ReqIds :
         /\ reqs[r].st = "inflight"
         /\ RouteAccepts(reqs[r].body)
         /\ UnboundedSendOk(wrx) => Len(wchan) < Buffer
         /\ wchan' = IF UnboundedSendOk(wrx)
                     THEN Append(wchan, [req |-> r, ev |-> BodyJson(reqs[r].body).value])
                     ELSE wchan
         /\ reqs' = [reqs EXCEPT ![r].st = "done", ![r].status = StatusNoContent]
    /\ UNCHANGED <<wrx, wreceived, werrs, listener, pullvars, codecvars>>

\* The map closure: `let _ = tx.send(value)`, answered NO_CONTENT.
Forward ==
    /\ \E r \in ReqIds :
         /\ reqs[r].st = "inflight"
         /\ RouteAccepts(reqs[r].body)
         /\ wchan' = IF UnboundedSendOk(wrx)
                     THEN Append(wchan, [req |-> r, ev |-> BodyJson(reqs[r].body).value])
                     ELSE wchan
         /\ reqs' = [reqs EXCEPT ![r].st = "done", ![r].status = StatusNoContent]
    /\ UNCHANGED <<wrx, wreceived, werrs, listener, pullvars, codecvars>>

\* The recover closure: on_error(err), answered BAD_REQUEST.
Recover ==
    /\ \E r \in ReqIds :
         /\ reqs[r].st = "inflight"
         /\ ~RouteAccepts(reqs[r].body)
         /\ werrs' = Append(werrs, r)
         /\ reqs' = [reqs EXCEPT ![r].st = "done", ![r].status = StatusBadRequest]
    /\ UNCHANGED <<wchan, wrx, wreceived, listener, pullvars, codecvars>>

\* The graceful-shutdown signal: tx.closed() resolved.
Shutdown ==
    /\ listener = "serving"
    /\ wrx # "open"
    /\ listener' = "draining"
    /\ UNCHANGED <<reqs, wchan, wrx, wreceived, werrs, pullvars, codecvars>>

\* Variant: the server future completes at the signal, requests in flight or
\* not.
StopAbrupt ==
    /\ listener = "draining"
    /\ listener' = "stopped"
    /\ UNCHANGED <<reqs, wchan, wrx, wreceived, werrs, pullvars, codecvars>>

\* The server future completes once no request is in flight.
Stop ==
    /\ listener = "draining"
    /\ \A r \in ReqIds : reqs[r].st # "inflight"
    /\ listener' = "stopped"
    /\ UNCHANGED <<reqs, wchan, wrx, wreceived, werrs, pullvars, codecvars>>

\* rx.recv().await yields the oldest item.
WRecv ==
    /\ wrx \in {"open", "closed"}
    /\ wchan # <<>>
    /\ wreceived' = Append(wreceived, Head(wchan))
    /\ wchan' = Tail(wchan)
    /\ UNCHANGED <<reqs, wrx, werrs, listener, pullvars, codecvars>>

\* rx.close()
WClose ==
    /\ wrx = "open"
    /\ wrx' = "closed"
    /\ UNCHANGED <<reqs, wchan, wreceived, werrs, listener, pullvars, codecvars>>

\* The receiver is dropped.
WDrop ==
    /\ wrx \in {"open", "closed"}
    /\ wrx' = "dropped"
    /\ wchan' = <<>>
    /\ UNCHANGED <<reqs, wreceived, werrs, listener, pullvars, codecvars>>

PushNext == Push \/ Forward \/ Recover \/ Shutdown \/ Stop \/ WRecv \/ WClose \/ WDrop

(* ========================= message conversion ========================= *)

\* Nesting depth of forward nodes in the nodes converted.
MaxDepth == 2

\* Option<T>
None == [some |-> FALSE]
Some(v) == [some |-> TRUE, value |-> v]

\* Result<T, TryIntoOutgoingError>
Ok(v) == [ok |-> TRUE, value |-> v]
Err == [ok |-> FALSE, error |-> "TryIntoOutgoingError"]

\* A variant of an enum with its payload.
Node(variant, node) == [variant |-> variant, node |-> node]

\* The values of IncomingMessageNode, one set per variant.
AtNodes == {Node("At", [target_id |-> t]) : t \in {7, 8}}

AtAllNodes == {Node("AtAll", [unit |-> TRUE])}

IncomingFaceNodes ==
    {Node("Face", [id |-> i, name |-> "smile", super_face |-> s]) : i \in {1, 2}, s \in BOOLEAN}

PlainNodes == {Node("Plain", [text |-> t]) : t \in {"hi", ""}}

IncomingImageNodes ==
    {Node("Image", [image_id |-> "{A}.png", url |-> "http://img/a", width |-> 1, height |-> 1,
                    size |-> 1, image_type |-> "PNG", is_emoji |-> e]) : e \in BOOLEAN}

IncomingVoiceNodes ==
    {Node("Voice", [voice_id |-> "v.amr", url |-> "http://voice/v", length_secs |-> 3])}

XmlNodes == {Node("Xml", [contents |-> "<x/>"])}

AppNodes == {Node("App", [contents |-> "{app}"])}

PokeNodes == {Node("Poke", [name |-> "ChuoYiChuo"])}

DiceNodes == {Node("Dice", [value |-> v]) : v \in {1, 6}}

IncomingMarketFaceNodes == {Node("MarketFace", [id |-> 1, name |-> "market"])}

MusicShareNodes ==
    {Node("MusicShare", [kind |-> "QQMusic", title |-> "title", summary |-> "summary",
                         jump_url |-> "http://jump", picture_url |-> "http://picture",
                         music_url |-> "http://music", brief |-> "brief"])}

IncomingFileNodes == {Node("File", [id |-> "/f", name |-> "f.txt", size |-> 1])}

IncomingShortVideoNodes ==
    {Node("ShortVideo", [video_id |-> "vid", name |-> "v.mp4", size |-> 1, video_type |-> "mp4",
                         url |-> None, md5 |-> "md5"])}

\* All nodes that are no forward node.
LeafNodes ==
    AtNodes \cup AtAllNodes \cup IncomingFaceNodes \cup PlainNodes \cup IncomingImageNodes
    \cup IncomingVoiceNodes \cup XmlNodes \cup AppNodes \cup PokeNodes \cup DiceNodes
    \cup IncomingMarketFaceNodes \cup MusicShareNodes \cup IncomingFileNodes
    \cup IncomingShortVideoNodes

PlainHi == Node("Plain", [text |-> "hi"])

\* The leaves placed inside forwarded messages: two with an outgoing form and
\* the four without one.
InnerLeaves ==
    {PlainHi, Node("Face", [id |-> 1, name |-> "smile", super_face |-> TRUE])}
    \cup IncomingVoiceNodes \cup IncomingMarketFaceNodes \cup IncomingFileNodes
    \cup IncomingShortVideoNodes

\* A quoted message whose content has no outgoing form.
QuotedVoice ==
    Node("User", [receiver_id |-> 1, sender_id |-> 2,
                  contents |-> [id |-> Some(5), nodes |-> <<CHOOSE v \in IncomingVoiceNodes : TRUE>>]])

\* Vec<IncomingMessageNode>: empty, one node of S, or one next to a Plain.
NodeLists(S) ==
    {<<>>} \cup {<<n>> : n \in S} \cup {<<n, PlainHi>> : n \in S} \cup {<<PlainHi, n>> : n \in S}

\* IncomingForwardedMessage
IncomingForwardedMessages(S) ==
    {[sender_id |-> 10, sender_name |-> "ten", time |-> 100, quote |-> q, nodes |-> ns] :
        q \in {None, Some(QuotedVoice)}, ns \in NodeLists(S)}

\* A second forwarded message, of another sender and with time 0.
OtherMessage ==
    [sender_id |-> 11, sender_name |-> "eleven", time |-> 0, quote |-> None, nodes |-> <<PlainHi>>]

\* Vec<IncomingForwardedMessage>: empty, one message, or one next to OtherMessage.
MessageLists(S) ==
    {<<>>} \cup {<<m>> : m \in IncomingForwardedMessages(S)}
    \cup {<<m, OtherMessage>> : m \in IncomingForwardedMessages(S)}
    \cup {<<OtherMessage, m>> : m \in IncomingForwardedMessages(S)}

\* IncomingForwardNode
IncomingForwardNodes(S) == {Node("Forward", [messages |-> ms]) : ms \in MessageLists(S)}

RECURSIVE NodesOfDepth(_)
NodesOfDepth(d) ==
    IF d = 0
    THEN InnerLeaves
    ELSE InnerLeaves \cup IncomingForwardNodes(NodesOfDepth(d - 1))

\* The nodes converted.
IncomingMessageNodes == LeafNodes \cup NodesOfDepth(MaxDepth)

\* No node, and a result not computed yet.
NoNode == [variant |-> "none"]
NotYet == [pending |-> TRUE]

\* Variant: the face is sent back by its name.
OutgoingFaceNodeFromName(value) ==
    [face |-> Node("Name", value.name), super_face |-> value.super_face]

\* impl From<&IncomingFaceNode> for OutgoingFaceNode
OutgoingFaceNodeFrom(value) ==
    [face |-> Node("Id", value.id), super_face |-> value.super_face]

\* impl From<&IncomingImageNode> for OutgoingImageNode
OutgoingImageNodeFrom(value) == Node("ImageId", value.image_id)

\* Variant: filter_map(Result::ok), the failing items left out.
CollectOk(rs) ==
    LET oks == SelectSeq(rs, LAMBDA r : r.ok)
    IN  Ok([i \in 1..Len(oks) |-> oks[i].value])

\* Iterator<Item = Result<T, E>>::collect::<Result<Vec<T>, E>>(): the error
\* of the first failing item, or all values in order.
CollectResult(rs) ==
    IF \E i \in 1..Len(rs) : ~rs[i].ok
    THEN Err
    ELSE Ok([i \in 1..Len(rs) |-> rs[i].value])

RECURSIVE OutgoingMessageNodeTryFrom(_)

\* Variant: the forwarded message is rebuilt without its time.
CustomForwardedMessageNoTime(message) ==
    LET nodes == CollectResult([j \in 1..Len(message.nodes) |->
                                   OutgoingMessageNodeTryFrom(message.nodes[j])])
    IN  IF nodes.ok
        THEN Ok(Node("Custom", [sender_id |-> message.sender_id,
                                sender_name |-> message.sender_name,
                                time |-> None,
                                nodes |-> nodes.value]))
        ELSE Err

\* The closure applied to each forwarded message.
CustomForwardedMessageTryFrom(message) ==
    LET nodes == CollectResult([j \in 1..Len(message.nodes) |->
                                   OutgoingMessageNodeTryFrom(message.nodes[j])])
    IN  IF nodes.ok
        THEN Ok(Node("Custom", [sender_id |-> message.sender_id,
                                sender_name |-> message.sender_name,
                                time |-> Some(message.time),
                                nodes |-> nodes.value]))
        ELSE Err

\* impl TryFrom<&IncomingForwardNode> for OutgoingForwardNode
OutgoingForwardNodeTryFrom(value) ==
    LET messages == CollectResult([i \in 1..Len(value.messages) |->
                                      CustomForwardedMessageTryFrom(value.messages[i])])
    IN  IF messages.ok
        THEN Ok([messages |-> messages.value, display |-> None])
        ELSE Err

\* Variant: a MarketFace node is converted to an outgoing Face by its id.
TryFromMarketFaceAsFace(value) ==
    CASE value.variant = "At" -> Ok(Node("At", value.node))
      [] value.variant = "AtAll" -> Ok(Node("AtAll", value.node))
      [] value.variant = "Face" -> Ok(Node("Face", OutgoingFaceNodeFrom(value.node)))
      [] value.variant = "Plain" -> Ok(Node("Plain", value.node))
      [] value.variant = "Image" -> Ok(Node("Image", OutgoingImageNodeFrom(value.node)))
      [] value.variant = "Voice" -> Err
      [] value.variant = "Xml" -> Ok(Node("Xml", value.node))
      [] value.variant = "App" -> Ok(Node("App", value.node))
      [] value.variant = "Poke" -> Ok(Node("Poke", value.node))
      [] value.variant = "Dice" -> Ok(Node("Dice", value.node))
      [] value.variant = "MarketFace" ->
            Ok(Node("Face", [face |-> Node("Id", value.node.id), super_face |-> FALSE]))
      [] value.variant = "MusicShare" -> Ok(Node("MusicShare", value.node))
      [] value.variant = "Forward" ->
            LET node == OutgoingForwardNodeTryFrom(value.node)
            IN  IF node.ok THEN Ok(Node("Forward", node.value)) ELSE Err
      [] value.variant = "File" -> Err
      [] value.variant = "ShortVideo" -> Err

\* impl TryFrom<&IncomingMessageNode> for OutgoingMessageNode
OutgoingMessageNodeTryFrom(value) ==
    CASE value.variant = "At" -> Ok(Node("At", value.node))
      [] value.variant = "AtAll" -> Ok(Node("AtAll", value.node))
      [] value.variant = "Face" -> Ok(Node("Face", OutgoingFaceNodeFrom(value.node)))
      [] value.variant = "Plain" -> Ok(Node("Plain", value.node))
      [] value.variant = "Image" -> Ok(Node("Image", OutgoingImageNodeFrom(value.node)))
      [] value.variant = "Voice" -> Err
      [] value.variant = "Xml" -> Ok(Node("Xml", value.node))
      [] value.variant = "App" -> Ok(Node("App", value.node))
      [] value.variant = "Poke" -> Ok(Node("Poke", value.node))
      [] value.variant = "Dice" -> Ok(Node("Dice", value.node))
      [] value.variant = "MarketFace" -> Err
      [] value.variant = "MusicShare" -> Ok(Node("MusicShare", value.node))
      [] value.variant = "Forward" ->
            LET node == OutgoingForwardNodeTryFrom(value.node)
            IN  IF node.ok THEN Ok(Node("Forward", node.value)) ELSE Err
      [] value.variant = "File" -> Err
      [] value.variant = "ShortVideo" -> Err

\* JSON null
Null == [null |-> TRUE]

\* OutgoingFaceNode: the flattened face and isSuperFace.
SerializeFace(n) ==
    IF n.face.variant = "Id"
    THEN [faceId |-> n.face.node, isSuperFace |-> n.super_face]
    ELSE [name |-> n.face.node, isSuperFace |-> n.super_face]

\* OutgoingImageNode: one key, named by the variant.
SerializeImage(n) ==
    CASE n.variant = "ImageId" -> [imageId |-> n.node]
      [] n.variant = "Url" -> [url |-> n.node]
      [] n.variant = "Path" -> [path |-> n.node]
      [] n.variant = "Base64" -> [base64 |-> n.node]

\* OutgoingVoiceNode: one key, named by the variant.
SerializeVoice(n) ==
    CASE n.variant = "VoiceId" -> [voiceId |-> n.node]
      [] n.variant = "Url" -> [url |-> n.node]
      [] n.variant = "Path" -> [path |-> n.node]
      [] n.variant = "Base64" -> [base64 |-> n.node]

\* MusicShareNode, camelCase
SerializeMusicShare(n) ==
    [kind |-> n.kind, title |-> n.title, summary |-> n.summary, jumpUrl |-> n.jump_url,
     pictureUrl |-> n.picture_url, musicUrl |-> n.music_url, brief |-> n.brief]

RECURSIVE SerializeNode(_)

\* impl Serialize for OutgoingForwardedMessage
SerializeForwardedMessage(m) ==
    IF m.variant = "Custom"
    THEN LET chain == [j \in 1..Len(m.node.nodes) |-> SerializeNode(m.node.nodes[j])]
         IN  IF m.node.time.some
             THEN [sender_id |-> m.node.sender_id, time |-> m.node.time.value,
                   sender_name |-> m.node.sender_name, message_chain |-> chain]
             ELSE [sender_id |-> m.node.sender_id,
                   sender_name |-> m.node.sender_name, message_chain |-> chain]
    ELSE IF m.node.context.some
         THEN [message_ref |-> [target |-> m.node.context.value, messageId |-> m.node.id]]
         ELSE [message_id |-> m.node.id]

\* ForwardDisplay: five fields of type Option, none with skip_serializing_if.
SerializeForwardDisplay(d) ==
    [brief |-> IF d.brief.some THEN d.brief.value ELSE Null,
     preview |-> IF d.preview.some THEN d.preview.value ELSE Null,
     source |-> IF d.source.some THEN d.source.value ELSE Null,
     summary |-> IF d.summary.some THEN d.summary.value ELSE Null,
     title |-> IF d.title.some THEN d.title.value ELSE Null]

\* OutgoingForwardNode: nodeList and display, an Option without
\* skip_serializing_if.
SerializeForward(n) ==
    [nodeList |-> [i \in 1..Len(n.messages) |-> SerializeForwardedMessage(n.messages[i])],
     display |-> IF n.display.some THEN SerializeForwardDisplay(n.display.value) ELSE Null]

\* OutgoingMessageNode, #[serde(tag = "type")]: the variant's name under
\* "type" next to the variant's own keys.
SerializeNode(o) ==
    [type |-> o.variant] @@
    CASE o.variant = "At" -> [target |-> o.node.target_id]
      [] o.variant = "AtAll" -> <<>>
      [] o.variant = "Face" -> SerializeFace(o.node)
      [] o.variant = "Plain" -> [text |-> o.node.text]
      [] o.variant = "Image" -> SerializeImage(o.node)
      [] o.variant = "Voice" -> SerializeVoice(o.node)
      [] o.variant = "Xml" -> [xml |-> o.node.contents]
      [] o.variant = "Json" -> [json |-> o.node.contents]
      [] o.variant = "App" -> [content |-> o.node.contents]
      [] o.variant = "Poke" -> [name |-> o.node.name]
      [] o.variant = "Dice" -> [value |-> o.node.value]
      [] o.variant = "MusicShare" -> SerializeMusicShare(o.node)
      [] o.variant = "Forward" -> SerializeForward(o.node)
      [] o.variant = "MiraiCode" -> [code |-> o.node.code]

\* No value is handed to an encoder.
NoArgs == [kind |-> "none"]

ConvInit ==
    /\ PullInit /\ PushInit
    /\ incoming \in IncomingMessageNodes
    /\ converted = NotYet
    /\ encoded = NotYet
    /\ wire = [kind |-> "none"]
    /\ decoded = NotYet
    /\ args = NoArgs

\* No conversion takes place.
CodecIdle ==
    /\ incoming = NoNode
    /\ converted = NotYet
    /\ encoded = NotYet
    /\ wire = [kind |-> "none"]
    /\ decoded = NotYet
    /\ args = NoArgs

\* OutgoingMessageNode::try_from(&node)
TryInto ==
    /\ incoming # NoNode
    /\ converted = NotYet
    /\ converted' = OutgoingMessageNodeTryFrom(incoming)
    /\ UNCHANGED <<incoming, encoded, wire, decoded, args, pullvars, pushvars>>

\* serde_json::to_value(&outgoing)
Serialize ==
    /\ converted # NotYet
    /\ converted.ok
    /\ encoded = NotYet
    /\ encoded' = SerializeNode(converted.value)
    /\ UNCHANGED <<incoming, converted, wire, decoded, args, pullvars, pushvars>>

ConvNext == TryInto \/ Serialize

(* ============================== decoding ============================== *)

\* Longest message chain decoded.
MaxChain == 3

\* Result<T, D::Error>: a decode error with its message.
DecodeError(msg) == [ok |-> FALSE, error |-> msg]

\* The ids on the wire: the sentinel and two others.
WireIds == {0, 5, -1}

\* JSON of the Source, Plain, At and Quote elements of a message chain.
WireSource(id, time) == [type |-> "Source", id |-> id, time |-> time]

WireSources == {WireSource(i, 100 + i) : i \in WireIds}

WirePlain == [type |-> "Plain", text |-> "hi"]

WireAt == [type |-> "At", target |-> 7]

WireQuote(id, senderId, targetId, groupId, origin) ==
    [type |-> "Quote", id |-> id, senderId |-> senderId, targetId |-> targetId,
     groupId |-> groupId, origin |-> origin]

\* Quotes of a user message and of group messages, with and without an id;
\* one names a group other than its target, one has an undecodable origin.
WireQuotes ==
    { WireQuote(0, 2, 3, 0, <<>>),
      WireQuote(6, 2, 3, 0, <<WireSource(9, 90), WirePlain>>),
      WireQuote(6, 2, 3, 3, <<WirePlain>>),
      WireQuote(-1, 2, 3, 4, <<WireAt>>),
      WireQuote(6, 2, 3, 3, <<WireSource(9, 90), WireSource(9, 90)>>) }

WireElements == WireSources \cup WireQuotes \cup {WirePlain, WireAt}

\* The message chains decoded.
WireChains == SeqsUpTo(WireElements, MaxChain)

\* JSON of FriendRecallEvent and GroupRecallEvent.
WireFriendRecalls == {[messageId |-> i, authorId |-> 2, time |-> 100] : i \in WireIds}

WireGroupRecalls ==
    {[messageId |-> i, authorId |-> 2, time |-> 100, operator |-> Null,
      group |-> [id |-> 3, name |-> "group", permission |-> "MEMBER"]] : i \in WireIds}

\* A key that the JSON object does not have.
Absent == [absent |-> TRUE]

WireFriend == [id |-> 2, nickname |-> "nick", remark |-> "remark"]

WireMember ==
    [id |-> 4, memberName |-> "member", specialTitle |-> "title", permission |-> "OWNER",
     joinTimestamp |-> 1, lastSpeakTimestamp |-> 2, muteTimeRemaining |-> 0,
     group |-> [id |-> 3, name |-> "group", permission |-> "MEMBER"]]

\* JSON of the source of a CommandExecutedEvent: each key absent, null or set.
WireCommandSources ==
    {[friend |-> f, member |-> m] : f \in {Absent, Null, WireFriend}, m \in {Absent, Null, WireMember}}

\* Longest file id on the wire, in characters.
MaxIdLen == 2

\* The file ids on the wire, as sequences of characters.
WireFileIds == SeqsUpTo({"/", "f"}, MaxIdLen)

\* JSON of the File and AtAll elements, and of elements whose tag is no tag
\* of Impl: the tags of the outgoing-only nodes and a known tag in another
\* case.
WireFiles == {[type |-> "File", id |-> i, name |-> "f.txt", size |-> 1] : i \in WireFileIds}

WireAtAll == [type |-> "AtAll"]

WireUnknownNodes ==
    { [type |-> "Json", json |-> "{}"], [type |-> "MiraiCode", code |-> "[mirai:atall]"],
      [type |-> "plain", text |-> "hi"], [type |-> "Unknown"] }

\* Chains with one such element, alone and after another element.
WireTagChains ==
    LET elements == WireFiles \cup WireUnknownNodes \cup {WireAtAll}
    IN  {<<e>> : e \in elements} \cup {<<WirePlain, e>> : e \in elements}

\* The nine message tags of Impl and the Message variant each one yields.
MessageVariants ==
    [FriendMessage |-> "Friend", FriendSyncMessage |-> "FriendSync",
     GroupMessage |-> "Group", GroupSyncMessage |-> "GroupSync",
     TempMessage |-> "Temp", TempSyncMessage |-> "TempSync",
     StrangerMessage |-> "Stranger", StrangerSyncMessage |-> "StrangerSync",
     OtherClientMessage |-> "OtherClient"]

MessageTags == DOMAIN MessageVariants

\* The event tags of Impl other than NudgeEvent and the Event variant each
\* one yields.
EventVariants ==
    [BotOnlineEvent |-> "BotOnline", BotOfflineEventActive |-> "BotOfflineActive",
     BotOfflineEventForce |-> "BotOfflineForced",
     BotOfflineEventDropped |-> "BotOfflineDropped", BotReloginEvent |-> "BotRelogin",
     GroupRecallEvent |-> "GroupMessageRecall", FriendRecallEvent |-> "FriendMessageRecall",
     BotGroupPermissionChangeEvent |-> "BotPermissionChange", BotMuteEvent |-> "BotMute",
     BotUnmuteEvent |-> "BotUnmute", BotJoinGroupEvent |-> "BotJoinGroup",
     BotLeaveEventActive |-> "BotLeaveGroupActive",
     BotLeaveEventKick |-> "BotLeaveGroupKicked",
     BotLeaveEventDisband |-> "BotLeaveGroupDisband",
     GroupNameChangeEvent |-> "GroupNameChange", GroupMuteAllEvent |-> "GroupMuteAll",
     GroupAllowAnonymousChatEvent |-> "GroupAllowAnonymousChat",
     GroupAllowConfessTalkEvent |-> "GroupAllowConfessTalk",
     GroupAllowMemberInviteEvent |-> "GroupAllowMemberInvite",
     MemberJoinEvent |-> "MemberJoin", MemberLeaveEventKick |-> "MemberLeaveKicked",
     MemberLeaveEventQuit |-> "MemberLeaveActive",
     MemberCardChangeEvent |-> "MemberNameChange",
     MemberSpecialTitleChangeEvent |-> "MemberSpecialTitleChange",
     MemberPermissionChangeEvent |-> "MemberPermissionChange",
     MemberMuteEvent |-> "MemberMute", MemberUnmuteEvent |-> "MemberUnmute",
     NewFriendRequestEvent |-> "NewFriendRequest",
     MemberJoinRequestEvent |-> "MemberJoinRequest",
     BotInvitedJoinGroupRequestEvent |-> "BotInvitedJoinGroupRequest",
     FriendInputStatusChangedEvent |-> "FriendTyping",
     FriendNickChangedEvent |-> "FriendNicknameChange",
     MemberHonorChangeEvent |-> "MemberHonorChange",
     OtherClientOnlineEvent |-> "OtherClientOnline",
     OtherClientOfflineEvent |-> "OtherClientOffline",
     CommandExecutedEvent |-> "CommandExecuted", FriendAddEvent |-> "FriendAdd",
     FriendDeleteEvent |-> "FriendDelete"]

EventTags == DOMAIN EventVariants

\* Every tag of Impl.
ImplTags == MessageTags \cup EventTags \cup {"NudgeEvent"}

WireGroup == [id |-> 3, name |-> "group", permission |-> "MEMBER"]

WireStranger == [id |-> 8, nickname |-> "stranger", remark |-> ""]

WireOtherClient == [id |-> 9, platform |-> "MOBILE"]

\* JSON of the subject of a NudgeEvent: the three kinds with their detail
\* record, a kind in another case, a kind that is no variant, a Group subject
\* that has the fields of a user, and a Group subject of id and kind alone.
WireSubjects ==
    { [kind |-> "Friend"] @@ WireFriend,
      [kind |-> "Group"] @@ WireGroup,
      [kind |-> "Stranger"] @@ WireStranger,
      [kind |-> "friend"] @@ WireFriend,
      [kind |-> "Member"] @@ WireMember,
      [kind |-> "Group"] @@ WireFriend,
      [kind |-> "Group", id |-> 3] }

\* JSON of NudgeEvent envelopes.
WireNudges ==
    {[type |-> "NudgeEvent", fromId |-> 2, target |-> t, subject |-> s,
      action |-> "poke", suffix |-> "back"] : t \in {2, 3}, s \in WireSubjects}

\* The message chains of the message envelopes: two that decode and one with
\* a duplicate Source.
EnvelopeChains ==
    { <<WireSource(5, 105), WirePlain>>,
      <<WireQuote(6, 2, 3, 3, <<WirePlain>>), WireAt>>,
      <<WireSource(5, 105), WireSource(5, 105)>> }

\* The sender or subject a message envelope of the tag carries.
WireDetailsOf(tag) ==
    CASE tag \in {"FriendMessage", "FriendSyncMessage"} -> WireFriend
      [] tag = "GroupMessage" -> WireMember
      [] tag = "GroupSyncMessage" -> WireGroup
      [] tag \in {"TempMessage", "TempSyncMessage"} -> WireMember
      [] tag \in {"StrangerMessage", "StrangerSyncMessage"} -> WireStranger
      [] tag = "OtherClientMessage" -> WireOtherClient

\* The tags of the messages that carry a subject in place of a sender.
SyncTags == {"FriendSyncMessage", "GroupSyncMessage", "TempSyncMessage", "StrangerSyncMessage"}

\* JSON of a message envelope.
WireMessage(type, tag, chain) ==
    IF tag \in SyncTags
    THEN [type |-> type, subject |-> WireDetailsOf(tag), messageChain |-> chain]
    ELSE [type |-> type, sender |-> WireDetailsOf(tag), messageChain |-> chain]

WireMessages == {WireMessage(tag, tag, c) : tag \in MessageTags, c \in EnvelopeChains}

\* JSON of the event envelopes other than NudgeEvent: the recall events with
\* their fields, the others with one field standing for theirs.
WireEvents ==
    {[type |-> "FriendRecallEvent"] @@ e : e \in WireFriendRecalls}
    \cup {[type |-> "GroupRecallEvent"] @@ e : e \in WireGroupRecalls}
    \cup {[type |-> tag, qq |-> q] :
            tag \in EventTags \ {"FriendRecallEvent", "GroupRecallEvent"}, q \in {1, 2}}

\* Envelopes whose tag is no tag of Impl: an unknown name, known names in
\* another case or without their suffix, and the name of an Event variant
\* that is not its tag.
WireUnknownEnvelopes ==
    {[type |-> t, qq |-> 1] : t \in {"UnknownEvent", "botOnlineEvent", "BotOnline", "Nudge"}}
    \cup {WireMessage(t, "FriendMessage", <<WirePlain>>) : t \in {"friendMessage", "Friend", "Message"}}

WireEnvelopes == WireMessages \cup WireNudges \cup WireEvents \cup WireUnknownEnvelopes

\* The integer codes of the response bodies: zero, a code of the gateway,
\* the largest u16 and the integers next to the range of NonZeroU16.
WireCodes == {0, 3, MaxU16, MaxU16 + 1, -1}

\* JSON of the response bodies: code and msg, with the data of a data call
\* and the messageId of a send call; None is a key that the body lacks.
WireBodies ==
    {[code |-> c, msg |-> m, data |-> d, messageId |-> i] :
        c \in {None} \cup {Some(x) : x \in WireCodes}, m \in {None, Some("rejected")},
        d \in {None, Some(<<>>), Some(<<"a">>)}, i \in {None, Some(5)}}

\* The success shapes expected: Data<T> of data() and SendMessageResult of
\* send().
ResponseShapes == {"data", "send"}

\* The response bodies decoded, each with the shape its call expects.
WireResponses == {[shape |-> s, body |-> b] : s \in ResponseShapes, b \in WireBodies}

\* The inputs decoded, each with the decoder it is for.
WireInputs ==
    {[kind |-> "chain", value |-> c] : c \in WireChains \cup WireTagChains}
    \cup {[kind |-> "envelope", value |-> e] : e \in WireEnvelopes}
    \cup {[kind |-> "response", value |-> r] : r \in WireResponses}
    \cup {[kind |-> "friendRecall", value |-> e] : e \in WireFriendRecalls}
    \cup {[kind |-> "groupRecall", value |-> e] : e \in WireGroupRecalls}
    \cup {[kind |-> "commandSource", value |-> s] : s \in WireCommandSources}

NoWire == [kind |-> "none"]

\* Variant: the id is kept whatever its value.
ThenSomeAlways(b, v) == Some(v)

\* bool::then_some
ThenSome(b, v) == IF b THEN Some(v) ELSE None

\* let mut id = None; let mut time_secs = None; let mut quote = None;
\* let mut nodes = Vec::new();
EmptyContents == [id |-> None, time_secs |-> None, quote |-> None, nodes |-> <<>>]

\* Variant: the quote is a group quote whatever its group id.
QuotedMessageAlwaysGroup(n, contents) ==
    Node("Group", [context_id |-> n.target_id, sender_id |-> n.sender_id, contents |-> contents])

\* if node.group_id == 0 { QuotedMessage::User(..) } else { QuotedMessage::Group(..) }
QuotedMessageFrom(n, contents) ==
    IF n.group_id = 0
    THEN Node("User", [receiver_id |-> n.target_id, sender_id |-> n.sender_id,
                       contents |-> contents])
    ELSE Node("Group", [context_id |-> n.target_id, sender_id |-> n.sender_id,
                        contents |-> contents])

\* Variant: a later Source replaces the earlier one.
SourceArmLastWins(acc, n) ==
    Ok([acc EXCEPT !.id = ThenSome(n.id # 0, n.id), !.time_secs = Some(n.time)])

\* The Impl::Source arm of visit_seq.
SourceArm(acc, n) ==
    IF acc.time_secs.some
    THEN DecodeError("duplicate Source")
    ELSE Ok([acc EXCEPT !.id = ThenSome(n.id # 0, n.id), !.time_secs = Some(n.time)])

\* The Impl::Quote arm of visit_seq.
QuoteArm(acc, n) ==
    IF acc.quote.some
    THEN DecodeError("duplicate Quote")
    ELSE LET contents == [id |-> ThenSome(n.id # 0, n.id), nodes |-> n.origin.nodes]
         IN  Ok([acc EXCEPT !.quote = Some(QuotedMessageFrom(n, contents))])

\* Every tag of the Impl of visit_seq.
NodeTags ==
    {"Source", "At", "AtAll", "Face", "Plain", "Image", "Voice", "Xml", "App", "Quote",
     "Poke", "Dice", "MarketFace", "MusicShare", "Forward", "File", "ShortVideo"}

\* Variant: the id is taken as it is on the wire.
DeserializeFileIdAsIs(id) == id

\* deserialize_file_id
DeserializeFileId(id) ==
    IF ~(Len(id) > 0 /\ Head(id) = "/") THEN <<"/">> \o id ELSE id

RECURSIVE VisitSeq(_, _, _)

\* seq.next_element::<Impl>(): the element decoded by its "type" tag; the
\* origin of a Quote is itself a message chain.
DeserializeImpl(w) ==
    CASE w.type = "Source" -> Ok(Node("Source", [id |-> w.id, time |-> w.time]))
      [] w.type = "At" -> Ok(Node("At", [target_id |-> w.target]))
      [] w.type = "Plain" -> Ok(Node("Plain", [text |-> w.text]))
      [] w.type = "AtAll" -> Ok(Node("AtAll", [unit |-> TRUE]))
      [] w.type = "File" ->
            Ok(Node("File", [id |-> DeserializeFileId(w.id), name |-> w.name,
                             size |-> w.size]))
      [] w.type \notin NodeTags -> DecodeError("unknown variant")
      [] w.type = "Quote" ->
            LET origin == VisitSeq(w.origin, 1, EmptyContents)
            IN  IF origin.ok
                THEN Ok(Node("Quote", [id |-> w.id, sender_id |-> w.senderId,
                                       target_id |-> w.targetId, group_id |-> w.groupId,
                                       origin |-> origin.value]))
                ELSE origin

\* IncomingMessageContentsVisitor::visit_seq, from the i-th element on, acc
\* holding id, time_secs, quote and nodes.
VisitSeq(seq, i, acc) ==
    IF i > Len(seq)
    THEN Ok(acc)
    ELSE LET element == DeserializeImpl(seq[i])
         IN  IF ~element.ok
             THEN element
             ELSE LET next ==
                          CASE element.value.variant = "Source" ->
                                   SourceArm(acc, element.value.node)
                            [] element.value.variant = "Quote" ->
                                   QuoteArm(acc, element.value.node)
                            [] OTHER ->
                                   Ok([acc EXCEPT !.nodes = Append(acc.nodes, element.value)])
                  IN  IF next.ok THEN VisitSeq(seq, i + 1, next.value) ELSE next

\* IncomingMessageContents::deserialize
DeserializeContents(seq) == VisitSeq(seq, 1, EmptyContents)

\* AnyMessage::id
AnyMessageId(contents) == contents.id

\* AnyQuotedMessage::id
AnyQuotedMessageId(quoted) == quoted.node.contents.id

\* Bot::get_message
GetMessage(id, context) == [id |-> id, context |-> context]

\* MemberPermission, SCREAMING_SNAKE_CASE with ADMINISTRATOR for Admin
DeserializePermission(p) ==
    CASE p = "MEMBER" -> "Member"
      [] p = "ADMINISTRATOR" -> "Admin"
      [] p = "OWNER" -> "Owner"

\* GroupDetails
DeserializeGroup(w) ==
    [id |-> w.id, name |-> w.name, permission |-> DeserializePermission(w.permission)]

\* FriendDetails(UserDetails)
DeserializeFriend(w) == [id |-> w.id, nickname |-> w.nickname, remark |-> w.remark]

\* MemberDetails, camelCase
DeserializeMember(w) ==
    [id |-> w.id, member_name |-> w.memberName, special_title |-> w.specialTitle,
     permission |-> DeserializePermission(w.permission),
     join_time_secs |-> w.joinTimestamp, last_speak_time_secs |-> w.lastSpeakTimestamp,
     mute_time_remaining_secs |-> w.muteTimeRemaining, group |-> DeserializeGroup(w.group)]

\* Option<FriendDetails>: an absent key and null give None.
DeserializeOptionFriend(w) ==
    IF w \in {Absent, Null} THEN None ELSE Some(DeserializeFriend(w))

\* Option<MemberDetails>: an absent key and null give None.
DeserializeOptionMember(w) ==
    IF w \in {Absent, Null} THEN None ELSE Some(DeserializeMember(w))

\* FriendMessageRecallEvent
DeserializeFriendRecall(w) ==
    [message_id |-> w.messageId, sender_id |-> w.authorId, time_secs |-> w.time]

\* FriendMessageRecallEvent::message
FriendRecallMessage(event) ==
    ThenSome(event.message_id # 0, GetMessage(event.message_id, event.sender_id))

\* GroupMessageRecallEvent
DeserializeGroupRecall(w) ==
    [message_id |-> w.messageId, context |-> DeserializeGroup(w.group),
     sender_id |-> w.authorId, time_secs |-> w.time,
     operator |-> DeserializeOptionMember(w.operator)]

\* GroupMessageRecallEvent::message
GroupRecallMessage(event) ==
    ThenSome(event.message_id # 0, GetMessage(event.message_id, event.context.id))

\* Variant: with both keys set the friend is taken.
CommandSourcePreferFriend(w) ==
    LET value == [friend |-> DeserializeOptionFriend(w.friend),
                  member |-> DeserializeOptionMember(w.member)]
    IN  CASE value.friend.some -> Ok(Node("Friend", value.friend.value))
          [] ~value.friend.some /\ value.member.some -> Ok(Node("Member", value.member.value))
          [] ~value.friend.some /\ ~value.member.some -> Ok(Node("Console", [unit |-> TRUE]))

\* impl Deserialize for CommandSource
CommandSourceDeserialize(w) ==
    LET value == [friend |-> DeserializeOptionFriend(w.friend),
                  member |-> DeserializeOptionMember(w.member)]
    IN  CASE value.friend.some /\ value.member.some ->
                 DecodeError("at most one of friend and member can be present")
          [] value.friend.some /\ ~value.member.some -> Ok(Node("Friend", value.friend.value))
          [] ~value.friend.some /\ value.member.some -> Ok(Node("Member", value.member.value))
          [] ~value.friend.some /\ ~value.member.some -> Ok(Node("Console", [unit |-> TRUE]))

\* StrangerDetails(UserDetails)
DeserializeStranger(w) == [id |-> w.id, nickname |-> w.nickname, remark |-> w.remark]

\* OtherClientDetails
DeserializeOtherClient(w) == [id |-> w.id, platform |-> w.platform]

\* The derived struct decoders fail on an object without one of their fields.
HasFields(w, fields) == fields \subseteq DOMAIN w

\* enum Subject, tagged by "kind"
DeserializeSubject(w) ==
    CASE w.kind = "Friend" ->
             IF HasFields(w, {"id", "nickname", "remark"})
             THEN Ok(Node("Friend", DeserializeFriend(w)))
             ELSE DecodeError("missing field")
      [] w.kind = "Group" ->
             IF HasFields(w, {"id", "name", "permission"})
             THEN Ok(Node("Group", DeserializeGroup(w)))
             ELSE DecodeError("missing field")
      [] w.kind = "Stranger" ->
             IF HasFields(w, {"id", "nickname", "remark"})
             THEN Ok(Node("Stranger", DeserializeStranger(w)))
             ELSE DecodeError("missing field")
      [] OTHER -> DecodeError("unknown variant")

\* struct NudgeEvent, camelCase
DeserializeNudge(w) ==
    LET subject == DeserializeSubject(w.subject)
    IN  IF subject.ok
        THEN Ok([from_id |-> w.fromId, target |-> w.target, subject |-> subject.value,
                 action |-> w.action, suffix |-> w.suffix])
        ELSE subject

\* Variant: every nudge is a friend nudge.
NudgeEventAlwaysFriend(event) ==
    Node("FriendNudge", [context |-> event.subject.node, from_id |-> event.from_id,
                         to_id |-> event.target, action |-> event.action,
                         suffix |-> event.suffix])

\* The Impl::NudgeEvent arm: match event.subject { .. }
NudgeEventFrom(event) ==
    LET fields == [context |-> event.subject.node, from_id |-> event.from_id,
                   to_id |-> event.target, action |-> event.action,
                   suffix |-> event.suffix]
    IN  CASE event.subject.variant = "Friend" -> Node("FriendNudge", fields)
          [] event.subject.variant = "Group" -> Node("GroupNudge", fields)
          [] event.subject.variant = "Stranger" -> Node("StrangerNudge", fields)

\* The message structs: sender or subject, and messageChain.
DeserializeMessage(w) ==
    LET contents == DeserializeContents(w.messageChain)
    IN  IF ~contents.ok
        THEN contents
        ELSE CASE w.type = "FriendMessage" ->
                      Ok(Node("Friend", [sender |-> DeserializeFriend(w.sender),
                                         contents |-> contents.value]))
               [] w.type = "FriendSyncMessage" ->
                      Ok(Node("FriendSync", [context |-> DeserializeFriend(w.subject),
                                             contents |-> contents.value]))
               [] w.type = "GroupMessage" ->
                      Ok(Node("Group", [sender |-> DeserializeMember(w.sender),
                                        contents |-> contents.value]))
               [] w.type = "GroupSyncMessage" ->
                      Ok(Node("GroupSync", [context |-> DeserializeGroup(w.subject),
                                            contents |-> contents.value]))
               [] w.type = "TempMessage" ->
                      Ok(Node("Temp", [sender |-> DeserializeMember(w.sender),
                                       contents |-> contents.value]))
               [] w.type = "TempSyncMessage" ->
                      Ok(Node("TempSync", [context |-> DeserializeMember(w.subject),
                                           contents |-> contents.value]))
               [] w.type = "StrangerMessage" ->
                      Ok(Node("Stranger", [sender |-> DeserializeStranger(w.sender),
                                           contents |-> contents.value]))
               [] w.type = "StrangerSyncMessage" ->
                      Ok(Node("StrangerSync", [context |-> DeserializeStranger(w.subject),
                                               contents |-> contents.value]))
               [] w.type = "OtherClientMessage" ->
                      Ok(Node("OtherClient", [sender |-> DeserializeOtherClient(w.sender),
                                              contents |-> contents.value]))

\* The context() of each message struct.
MessageContext(m) ==
    CASE m.variant = "Group" -> m.node.sender.group
      [] m.variant \in {"Friend", "Temp", "Stranger", "OtherClient"} -> m.node.sender
      [] OTHER -> m.node.context

\* The event structs other than NudgeEvent.
DeserializeEvent(w) ==
    CASE w.type = "FriendRecallEvent" -> DeserializeFriendRecall(w)
      [] w.type = "GroupRecallEvent" -> DeserializeGroupRecall(w)
      [] OTHER -> [id |-> w.qq]

\* MessageOrEvent::Message and MessageOrEvent::Event
MessageOf(m) == [kind |-> "Message", value |-> m]

EventOf(e) == [kind |-> "Event", value |-> e]

\* Variant: a tag that is no tag of Impl yields an event of that name.
MessageOrEventCatchAll(w) ==
    CASE w.type \in MessageTags ->
             LET message == DeserializeMessage(w)
             IN  IF message.ok THEN Ok(MessageOf(message.value)) ELSE message
      [] w.type = "NudgeEvent" ->
             LET event == DeserializeNudge(w)
             IN  IF event.ok THEN Ok(EventOf(NudgeEventFrom(event.value))) ELSE event
      [] w.type \in EventTags ->
             Ok(EventOf(Node(EventVariants[w.type], DeserializeEvent(w))))
      [] OTHER -> Ok(EventOf(Node(w.type, [unit |-> TRUE])))

\* impl Deserialize for MessageOrEvent: Impl decoded by its "type" tag, then
\* the match over Impl.
MessageOrEventDeserialize(w) ==
    CASE w.type \in MessageTags ->
             LET message == DeserializeMessage(w)
             IN  IF message.ok THEN Ok(MessageOf(message.value)) ELSE message
      [] w.type = "NudgeEvent" ->
             LET event == DeserializeNudge(w)
             IN  IF event.ok THEN Ok(EventOf(NudgeEventFrom(event.value))) ELSE event
      [] w.type \in EventTags ->
             Ok(EventOf(Node(EventVariants[w.type], DeserializeEvent(w))))
      [] OTHER -> DecodeError("unknown variant")

\* NonZeroU16::deserialize: an integer from 1 to the largest u16.
NonZeroU16(code) == code.some /\ code.value \in 1..MaxU16

\* adapter::Error: code, and msg with serde(default).
ErrorDeserialize(body) ==
    IF NonZeroU16(body.code)
    THEN Ok([code |-> body.code.value,
             message |-> IF body.msg.some THEN body.msg.value ELSE ""])
    ELSE DecodeError("invalid value")

\* T::deserialize(value) for the two shapes; unknown keys are ignored.
ShapeDeserialize(shape, body) ==
    CASE shape = "data" ->
             IF body.data.some THEN Ok(body.data.value) ELSE DecodeError("missing field")
      [] shape = "send" ->
             IF body.messageId.some
             THEN Ok([message_id |-> body.messageId.value])
             ELSE DecodeError("missing field")

\* HttpAdapterError::Mirai and HttpAdapterError::Json
MiraiError(err) == [ok |-> FALSE, error |-> Node("Mirai", err)]

JsonError(err) == [ok |-> FALSE, error |-> Node("Json", [message |-> err.error])]

\* HttpAdapterHandler::validate, after the body was fetched and parsed.
Validate(shape, body) ==
    LET err == ErrorDeserialize(body)
    IN  IF err.ok
        THEN MiraiError(err.value)
        ELSE LET value == ShapeDeserialize(shape, body)
             IN  IF value.ok THEN value ELSE JsonError(value)

DecodeInit ==
    /\ PullInit /\ PushInit
    /\ incoming = NoNode /\ converted = NotYet /\ encoded = NotYet
    /\ wire \in WireInputs
    /\ decoded = NotYet
    /\ args = NoArgs

\* serde_json::from_value::<IncomingMessageContents>
DecodeChain ==
    /\ wire.kind = "chain"
    /\ decoded = NotYet
    /\ decoded' = DeserializeContents(wire.value)
    /\ UNCHANGED <<wire, incoming, converted, encoded, args, pullvars, pushvars>>

\* serde_json::from_value::<FriendMessageRecallEvent>, then message()
DecodeFriendRecall ==
    /\ wire.kind = "friendRecall"
    /\ decoded = NotYet
    /\ decoded' = FriendRecallMessage(DeserializeFriendRecall(wire.value))
    /\ UNCHANGED <<wire, incoming, converted, encoded, args, pullvars, pushvars>>

\* serde_json::from_value::<GroupMessageRecallEvent>, then message()
DecodeGroupRecall ==
    /\ wire.kind = "groupRecall"
    /\ decoded = NotYet
    /\ decoded' = GroupRecallMessage(DeserializeGroupRecall(wire.value))
    /\ UNCHANGED <<wire, incoming, converted, encoded, args, pullvars, pushvars>>

\* serde_json::from_value::<CommandSource>
DecodeCommandSource ==
    /\ wire.kind = "commandSource"
    /\ decoded = NotYet
    /\ decoded' = CommandSourceDeserialize(wire.value)
    /\ UNCHANGED <<wire, incoming, converted, encoded, args, pullvars, pushvars>>

\* serde_json::from_value::<MessageOrEvent>
DecodeEnvelope ==
    /\ wire.kind = "envelope"
    /\ decoded = NotYet
    /\ decoded' = MessageOrEventDeserialize(wire.value)
    /\ UNCHANGED <<wire, incoming, converted, encoded, args, pullvars, pushvars>>

\* validate::<T> on a fetched body
DecodeResponse ==
    /\ wire.kind = "response"
    /\ decoded = NotYet
    /\ decoded' = Validate(wire.value.shape, wire.value.body)
    /\ UNCHANGED <<wire, incoming, converted, encoded, args, pullvars, pushvars>>

DecodeNext ==
    \/ DecodeChain \/ DecodeFriendRecall \/ DecodeGroupRecall \/ DecodeCommandSource
    \/ DecodeEnvelope \/ DecodeResponse

(* ============================== encoding ============================== *)

\* A JSON object without fields.
EmptyObject == [key \in {} |-> Null]

\* The ids and paths of the file locators, as sequences of characters.
LocatorStrings == SeqsUpTo({"/", "f"}, MaxIdLen)

\* FileLocator::Id and FileLocator::Path
FileLocators == {Node(variant, s) : variant \in {"Id", "Path"}, s \in LocatorStrings}

\* FileLocator::root
FileLocatorRoot == Node("Id", <<>>)

\* FileArgs
FileArgsInputs == {[file |-> l, target |-> 3] : l \in FileLocators}

\* Variant: the id is emitted also when it is empty.
SerializeFileLocatorAlwaysId(l) ==
    IF l.variant = "Id" THEN [id |-> l.node] ELSE [path |-> l.node]

\* impl Serialize for FileLocator: Id with skip_serializing_if =
\* "str::is_empty", Path without.
SerializeFileLocator(l) ==
    CASE l.variant = "Id" -> IF l.node = <<>> THEN EmptyObject ELSE [id |-> l.node]
      [] l.variant = "Path" -> [path |-> l.node]

\* FileArgs: the locator flattened, and target.
SerializeFileArgs(a) == SerializeFileLocator(a.file) @@ [target |-> a.target]

\* ForwardDisplay: each field unset or set.
ForwardDisplays ==
    {[brief |-> b, preview |-> p, source |-> s, summary |-> m, title |-> t] :
        b \in {None, Some("brief")}, p \in {None, Some(<<"line">>)},
        s \in {None, Some("source")}, m \in {None, Some("summary")},
        t \in {None, Some("title")}}

\* OutgoingForwardedMessage: custom with and without time, and references
\* with and without context.
OutgoingForwardedMessages ==
    {Node("Custom", [sender_id |-> 2, sender_name |-> "nick", time |-> t,
                     nodes |-> <<Node("Plain", [text |-> "hi"])>>]) : t \in {None, Some(100)}}
    \cup {Node("Ref", [context |-> c, id |-> 5]) : c \in {None, Some(3)}}

\* OutgoingForwardNode, as built by forward(messages, display).
OutgoingForwardNodes ==
    {Node("Forward", [messages |-> ms, display |-> d]) :
        ms \in SeqsUpTo(OutgoingForwardedMessages, 2),
        d \in {None} \cup {Some(x) : x \in ForwardDisplays}}

\* SendMessageArgs with its OutgoingMessageContents.
SendMessageArgsInputs ==
    {[target |-> 3, contents |-> [quote |-> q, nodes |-> ns]] :
        q \in {None, Some(5)},
        ns \in {<<>>, <<Node("Plain", [text |-> "hi"])>>,
                <<Node("At", [target_id |-> 7]), Node("Json", [contents |-> "{}"])>>}}

\* UpdateGroupConfigArgs with its GroupConfigUpdate.
UpdateGroupConfigArgsInputs ==
    {[target |-> 3, config |-> [name |-> n, allow_member_invite |-> a]] :
        n \in {None, Some("group")}, a \in {None, Some(TRUE), Some(FALSE)}}

\* A field of type Option with skip_serializing_if = "Option::is_none".
SerializeUnlessNone(key, o) == IF o.some THEN [k \in {key} |-> o.value] ELSE EmptyObject

\* OutgoingMessageContents: quote, skipped if none, and messageChain.
SerializeContents(c) ==
    SerializeUnlessNone("quote", c.quote)
    @@ [messageChain |-> [i \in 1..Len(c.nodes) |-> SerializeNode(c.nodes[i])]]

\* SendMessageArgs: target and the contents flattened.
SerializeSendMessageArgs(a) == [target |-> a.target] @@ SerializeContents(a.contents)

\* GroupConfigUpdate, camelCase, both fields skipped if none.
SerializeGroupConfigUpdate(c) ==
    SerializeUnlessNone("name", c.name)
    @@ SerializeUnlessNone("allowMemberInvite", c.allow_member_invite)

\* UpdateGroupConfigArgs
SerializeUpdateGroupConfigArgs(a) ==
    [target |-> a.target, config |-> SerializeGroupConfigUpdate(a.config)]

\* The values encoded, each with the encoder it is for.
EncodeInputs ==
    {[kind |-> "fileArgs", value |-> a] : a \in FileArgsInputs}
    \cup {[kind |-> "node", value |-> n] : n \in OutgoingForwardNodes}
    \cup {[kind |-> "sendMessage", value |-> a] : a \in SendMessageArgsInputs}
    \cup {[kind |-> "updateGroupConfig", value |-> a] : a \in UpdateGroupConfigArgsInputs}

EncodeInit ==
    /\ PullInit /\ PushInit
    /\ incoming = NoNode /\ converted = NotYet /\ encoded = NotYet
    /\ wire = NoWire /\ decoded = NotYet
    /\ args \in EncodeInputs

\* serde_json::to_value::<FileArgs>
EncodeFileArgs ==
    /\ args.kind = "fileArgs"
    /\ encoded = NotYet
    /\ encoded' = SerializeFileArgs(args.value)
    /\ UNCHANGED <<args, incoming, converted, wire, decoded, pullvars, pushvars>>

\* serde_json::to_value::<OutgoingMessageNode>
EncodeNode ==
    /\ args.kind = "node"
    /\ encoded = NotYet
    /\ encoded' = SerializeNode(args.value)
    /\ UNCHANGED <<args, incoming, converted, wire, decoded, pullvars, pushvars>>

\* serde_json::to_value::<SendMessageArgs>
EncodeSendMessage ==
    /\ args.kind = "sendMessage"
    /\ encoded = NotYet
    /\ encoded' = SerializeSendMessageArgs(args.value)
    /\ UNCHANGED <<args, incoming, converted, wire, decoded, pullvars, pushvars>>

\* serde_json::to_value::<UpdateGroupConfigArgs>
EncodeUpdateGroupConfig ==
    /\ args.kind = "updateGroupConfig"
    /\ encoded = NotYet
    /\ encoded' = SerializeUpdateGroupConfigArgs(args.value)
    /\ UNCHANGED <<args, incoming, converted, wire, decoded, pullvars, pushvars>>

EncodeNext == EncodeFileArgs \/ EncodeNode \/ EncodeSendMessage \/ EncodeUpdateGroupConfig

(* ========================== specifications ============================ *)

Init == PullInit /\ PushInit /\ CodecIdle

Next == Pump \/ TransportRespond \/ Tick \/ Recv \/ Close \/ Drop

Spec == Init /\ [][Next]_vars

\* The runtime polls a ready task, the transport answers, time passes and the
\* consumer keeps receiving.
FairSpec ==
    /\ Spec
    /\ WF_vars(Pump)
    /\ WF_vars(TransportRespond)
    /\ WF_vars(Tick)
    /\ WF_vars(Recv)

PushSpec == Init /\ [][PushNext]_vars

\* The runtime polls the spawned server task: requests in flight are served,
\* the shutdown signal is delivered and the drained server returns.
PushFairSpec ==
    /\ PushSpec
    /\ WF_vars(Forward)
    /\ WF_vars(Recover)
    /\ WF_vars(Shutdown)
    /\ WF_vars(Stop)

\* Conversion and encoding of one incoming node.
ConvSpec == ConvInit /\ [][ConvNext]_vars

\* One JSON input handed to its decoder.
DecodeSpec == DecodeInit /\ [][DecodeNext]_vars

\* One value handed to its encoder.
EncodeSpec == EncodeInit /\ [][EncodeNext]_vars

(* ============================ properties ============================== *)

IsPrefix(s, t) == Len(s) <= Len(t) /\ \A i \in 1..Len(s) : s[i] = t[i]

\* The events of an answer that has arrived and is not yet handled by the task.
InFlight == IF resp # NoResp /\ FetchMessage(resp).ok THEN FetchMessage(resp).events ELSE <<>>

\* The error of an answer that has arrived and is not yet handled by the task.
ErrInFlight == IF resp # NoResp /\ ~FetchMessage(resp).ok THEN <<FetchMessage(resp).err>> ELSE <<>>

\* A step of the task that issues a fetch_message request.
IssuesFetch == pc # "fetching" /\ pc' = "fetching"

\* C1: the consumer receives events in exactly the order the transport
\* returned them, inside a batch and across batches: what has been received
\* and what is buffered is at all times a prefix of the transport's output.
C1_Fifo == IsPrefix(received \o chan, produced)

\* Events of two batches received, in the transport's order.
C1_Witness == received = <<"a", "b", "a">> /\ produced = received

\* C2: while the consumer keeps the channel open and keeps receiving, the
\* n-th event the transport returned is eventually the n-th event received;
\* waiting on a full channel loses nothing.
C2_EventuallyReceived ==
    \A n \in 1..MaxProduced :
        (Len(produced) >= n) ~> (Closed \/ (Len(received) >= n /\ received[n] = produced[n]))

\* The task waits on a full channel with a fetched event still in hand, and
\* the consumer has received all the transport returned before.
C2_Witness ==
    /\ ~Closed
    /\ pc = "send"
    /\ SendOutcome(Len(chan), rx) = "pending"
    /\ events # <<>>
    /\ received # <<>>

\* C3: a fetch is outstanding only when every event of the previous batches
\* was accepted by the channel, which holds at most Buffer events: all but
\* Buffer of the events returned so far have been received.
C3_FetchAfterHandOff ==
    (pc = "fetching" /\ resp = NoResp) =>
        /\ Len(chan) <= Buffer
        /\ Len(produced) <= Len(received) + Buffer

\* C4: a failed fetch makes exactly one on_error call with its error, leaves
\* the task running (in the poll wait) and leaves the batch in hand, the
\* channel and the received events untouched; the sink has seen exactly the
\* transport's failures; the task ends only after the channel was closed.
C4_FetchErrorHandling ==
    [][/\ (pc = "fetching" /\ ErrInFlight # <<>> /\ resp' # resp) =>
            /\ errlog' = errlog \o ErrInFlight
            /\ pc' = "wait"
            /\ events' = events /\ chan' = chan /\ received' = received
       /\ errlog' \o ErrInFlight' = failed'
       /\ (pc' = "done" => Closed')
      ]_vars

\* A fetch failed and the sink saw exactly one error; the task went on to
\* fetch the batch it now hands to the open channel, and no event returned
\* before or after the failure is missing.
C4_Witness ==
    /\ ~Closed
    /\ Len(errlog) = 1 /\ failed = errlog
    /\ pc = "send"
    /\ received \o chan \o events = produced
    /\ Len(events) = 1 /\ Len(produced) = BatchSize
    /\ events[1] # produced[1]

\* C5: once the channel is closed or dropped, a task that was fetching,
\* handing off a batch or waiting issues no further fetch.
C5_NoFetchAfterClose == [][(Closed /\ pc # "start") => ~IssuesFetch]_vars

\* C6: after the channel is closed or dropped the task eventually returns.
C6_ExitsAfterClose == Closed ~> (pc = "done")

\* C7: when the channel is closed during the poll wait, the timeout is ready
\* whatever is left of the interval, and the task's next step is to return:
\* it issues no fetch, and a returned task stays returned.
C7_WaitCancelledByClose ==
    [][/\ (pc = "wait" /\ Closed) => (ENABLED WaitClosed /\ pc' \in {"wait", "done"})
       /\ (pc = "done" => pc' = "done")
      ]_vars

\* The task has returned from a wait with part of the interval left.
C7_Witness == pc = "done" /\ timer > 0

\* C8: after an empty batch and after a failed fetch the task enters a wait
\* of one full poll interval; a fetch is issued only by the first poll of
\* the task, after the hand-off of a non-empty batch, or from a wait whose
\* interval has elapsed with the channel open; the interval only runs down.
C8_Pacing ==
    [][/\ (pc = "fetching" /\ resp # NoResp /\ InFlight = <<>> /\ resp' # resp) =>
            (pc' = "wait" /\ timer' = PollInterval)
       /\ IssuesFetch =>
            \/ pc = "start"
            \/ pc = "send" /\ Len(events) = 1
            \/ pc = "wait" /\ timer = 0 /\ ~Closed
       /\ (pc = "wait" /\ pc' = "wait") => timer' \in {timer, timer - 1}
      ]_vars

\* A fetch re-issued after a failed fetch and an elapsed interval.
C8_Witness ==
    /\ pc = "fetching" /\ resp = NoResp
    /\ errlog # <<>> /\ produced = <<>>
    /\ timer = 0

\* C9: the channel and the consumer never hold more events than the
\* transport returned, and while the channel is open every returned event is,
\* exactly once and in order, received, buffered, in hand or in flight.
C9_Multiplicity ==
    /\ Len(received) + Len(chan) <= Len(produced)
    /\ ~Closed => received \o chan \o events \o InFlight = produced

\* The same event returned in more batches than one, received every time.
C9_Witness ==
    /\ Len(received) > BatchSize
    /\ \A i \in 1..Len(received) : received[i] = "a"

\* A payload that is not JSON, not a decodable envelope, or over the size limit.
Malformed(p) == p.text \notin Events \/ (p.hasLen /\ p.len > BodyLimit)

\* How often x occurs in s.
Count(s, x) == Cardinality({i \in 1..Len(s) : s[i] = x})

\* The requests that have put an item on the channel.
Forwarded == {(wreceived \o wchan)[i].req : i \in 1..Len(wreceived \o wchan)}

\* C10: an answered push with a malformed payload got the client-error
\* status, caused exactly one on_error call and put nothing on the channel;
\* the status of every answered push is decided by its own payload alone, and
\* only answered, rejected pushes have reached the sink.
C10_MalformedRejected ==
    /\ \A r \in ReqIds :
         reqs[r].st = "done" =>
            /\ Malformed(reqs[r].body) =>
                  /\ reqs[r].status = StatusBadRequest
                  /\ Count(werrs, r) = 1
                  /\ r \notin Forwarded
            /\ reqs[r].status = StatusNoContent <=>
                  (reqs[r].body.hasLen /\ ~Malformed(reqs[r].body))
            /\ reqs[r].status = StatusBadRequest => Count(werrs, r) = 1
    /\ \A i \in 1..Len(werrs) :
         reqs[werrs[i]].st = "done" /\ reqs[werrs[i]].status = StatusBadRequest

\* A malformed push was rejected and another push was forwarded and received.
C10_Witness ==
    /\ reqs[1].st = "done" /\ reqs[1].body.text = "badenv"
    /\ reqs[2].st = "done" /\ reqs[2].status = StatusNoContent
    /\ Len(wreceived) = 1 /\ wreceived[1].req = 2

\* What the consumer has received and what is buffered for it, oldest first.
WStream == wreceived \o wchan

\* The channel item of request r.
WItem(r) == [req |-> r, ev |-> reqs[r].body.text]

\* A step that appends at most one item, of a request it answers, to the
\* consumer's stream and otherwise leaves the stream as it is.
KeepsOrder ==
    \/ WStream' = WStream
    \/ \E r \in ReqIds :
         /\ reqs[r].st = "inflight" /\ reqs'[r].st = "done"
         /\ WStream' = Append(WStream, WItem(r))

\* Every push whose payload satisfies wf, in flight on the open channel, can
\* be forwarded whatever the channel holds, and its answer is the empty
\* success status, with its own payload placed once at the end of the stream.
ForwardsEach(wf(_)) ==
    \A r \in ReqIds :
        (wrx = "open" /\ reqs[r].st = "inflight" /\ wf(reqs[r].body)) =>
            /\ ENABLED Forward
            /\ reqs'[r].st = "done" =>
                  /\ reqs'[r].status = StatusNoContent
                  /\ WStream' = Append(WStream, WItem(r))
                  /\ Count(WStream', WItem(r)) = 1

\* A payload that is a decodable envelope within the size limit.
WellFormed(p) == ~Malformed(p)

\* A well-formed payload sent with a Content-Length header.
WellFormedWithLength(p) == WellFormed(p) /\ p.hasLen

C12_GracefulShutdown ==
    /\ [][/\ listener # "serving" =>
               (\A r \in ReqIds : (reqs[r].st = "idle" => reqs'[r].st = "idle"))
          /\ \A r \in ReqIds :
               (reqs[r].st = "inflight" /\ reqs'[r].st # "inflight") =>
                   /\ reqs'[r].st = "done"
                   /\ reqs'[r].status \in {StatusNoContent, StatusBadRequest}
          /\ listener' = "stopped" => (\A r \in ReqIds : reqs'[r].st # "inflight")
          /\ listener = "stopped" => listener' = "stopped"
         ]_vars
    /\ (wrx # "open") ~> (listener = "stopped")

\* The listener has returned after a close, and a push that was in flight at
\* the close was answered before it returned.
C12_Witness ==
    /\ listener = "stopped" /\ wrx = "closed"
    /\ \E r \in ReqIds :
         reqs[r].st = "done" /\ reqs[r].status = StatusNoContent /\ r \notin Forwarded

\* The incoming variants without an outgoing form.
Unrepresentable == {"Voice", "MarketFace", "File", "ShortVideo"}

\* C13: the conversion is applicable to every incoming node and yields a
\* success or the TryIntoOutgoingError; for a node that is no forward it
\* yields the error exactly for Voice, MarketFace, File and ShortVideo, and
\* otherwise the outgoing variant of the same kind, never Json or MiraiCode.
C13_NodeConversion ==
    /\ incoming # NoNode =>
          LET result == OutgoingMessageNodeTryFrom(incoming)
          IN  /\ result = Err \/ result.ok
              /\ converted \in {NotYet, result}
    /\ converted # NotYet =>
          /\ converted = Err \/ (converted.ok /\ converted.value.variant = incoming.variant)
          /\ incoming.variant # "Forward" =>
                /\ converted = Err <=> incoming.variant \in Unrepresentable
                /\ converted.ok =>
                      converted.value.variant \in
                          {"At", "AtAll", "Face", "Plain", "Image", "Xml", "App", "Poke",
                           "Dice", "MusicShare"}

\* A ShortVideo node was handed to the conversion, which returned the error.
C13_Witness == incoming \in IncomingShortVideoNodes /\ converted = Err

RECURSIVE ContainsUnrepresentable(_)
\* Some node of n, at any depth of its forwarded messages' node lists, has no
\* outgoing form.
ContainsUnrepresentable(n) ==
    IF n.variant = "Forward"
    THEN \E i \in 1..Len(n.node.messages) :
            \E j \in 1..Len(n.node.messages[i].nodes) :
                ContainsUnrepresentable(n.node.messages[i].nodes[j])
    ELSE n.variant \in Unrepresentable

RECURSIVE IncomingSize(_)
\* The number of nodes of an incoming node, at all depths.
IncomingSize(n) ==
    IF n.variant = "Forward"
    THEN LET RECURSIVE Sum(_, _)
             Sum(ms, i) ==
                 IF i > Len(ms) THEN 0
                 ELSE LET RECURSIVE SumNodes(_, _)
                          SumNodes(ns, j) ==
                              IF j > Len(ns) THEN 0
                              ELSE IncomingSize(ns[j]) + SumNodes(ns, j + 1)
                      IN  SumNodes(ms[i].nodes, 1) + Sum(ms, i + 1)
         IN  1 + Sum(n.node.messages, 1)
    ELSE 1

RECURSIVE OutgoingSize(_)
\* The number of nodes of an outgoing node, at all depths.
OutgoingSize(o) ==
    IF o.variant = "Forward"
    THEN LET RECURSIVE Sum(_, _)
             Sum(ms, i) ==
                 IF i > Len(ms) THEN 0
                 ELSE LET RECURSIVE SumNodes(_, _)
                          SumNodes(ns, j) ==
                              IF j > Len(ns) THEN 0
                              ELSE OutgoingSize(ns[j]) + SumNodes(ns, j + 1)
                      IN  SumNodes(ms[i].node.nodes, 1) + Sum(ms, i + 1)
         IN  1 + Sum(o.node.messages, 1)
    ELSE 1

\* C14: the conversion of a Forward node returns the error exactly when some
\* node inside it, at any depth, is Voice, MarketFace, File or ShortVideo; a
\* successful conversion has as many nodes, at all depths, as the incoming
\* node: no nested node was skipped.
C14_ForwardFailsTransitively ==
    (converted # NotYet /\ incoming.variant = "Forward") =>
        /\ converted = Err <=> ContainsUnrepresentable(incoming)
        /\ converted # Err =>
              /\ converted.ok
              /\ OutgoingSize(converted.value) = IncomingSize(incoming)

\* The conversion failed on a forward whose only node without an outgoing
\* form is the last node of a message of a nested forward.
C14_Witness ==
    /\ converted = Err
    /\ incoming.variant = "Forward"
    /\ Len(incoming.node.messages) = 2
    /\ incoming.node.messages[1] = OtherMessage
    /\ Len(incoming.node.messages[2].nodes) = 2
    /\ incoming.node.messages[2].nodes[1] = PlainHi
    /\ incoming.node.messages[2].nodes[2].variant = "Forward"
    /\ \E v \in IncomingFileNodes :
          incoming.node.messages[2].nodes[2].node.messages[1].nodes = <<PlainHi, v>>

RECURSIVE ForwardMatches(_, _)
\* The outgoing forward o re-expresses the incoming forward n: as many
\* messages, in order, each Custom with the sender id, sender name, Some(time)
\* and the conversions of its nodes in order, nested forwards likewise.
ForwardMatches(n, o) ==
    /\ Len(o.messages) = Len(n.messages)
    /\ \A i \in 1..Len(n.messages) :
          LET m == n.messages[i]
              c == o.messages[i]
          IN  /\ c.variant = "Custom"
              /\ c.node.sender_id = m.sender_id
              /\ c.node.sender_name = m.sender_name
              /\ c.node.time = Some(m.time)
              /\ Len(c.node.nodes) = Len(m.nodes)
              /\ \A j \in 1..Len(m.nodes) :
                    /\ c.node.nodes[j].variant = m.nodes[j].variant
                    /\ IF m.nodes[j].variant = "Forward"
                       THEN ForwardMatches(m.nodes[j].node, c.node.nodes[j].node)
                       ELSE Ok(c.node.nodes[j]) = OutgoingMessageNodeTryFrom(m.nodes[j])

\* C15: a successful conversion of a Forward node has the incoming messages
\* in number and order, each in the Custom form with the incoming sender id,
\* sender name, Some(time) and converted nodes; no message is a Ref.
C15_ForwardStructure ==
    (converted # NotYet /\ converted.ok /\ incoming.variant = "Forward") =>
        /\ converted.value.variant = "Forward"
        /\ ForwardMatches(incoming.node, converted.value.node)

\* A converted forward of two messages of different senders, the second with
\* a Face and a Plain node.
C15_Witness ==
    /\ converted # NotYet /\ converted.ok
    /\ incoming.variant = "Forward"
    /\ Len(converted.value.node.messages) = 2
    /\ converted.value.node.messages[1].node.sender_id = 11
    /\ converted.value.node.messages[1].node.time = Some(0)
    /\ converted.value.node.messages[2].node.sender_id = 10
    /\ Len(converted.value.node.messages[2].node.nodes) = 2
    /\ converted.value.node.messages[2].node.nodes[1].variant = "Face"
    /\ converted.value.node.messages[2].node.nodes[2].variant = "Plain"

\* The encoding of a converted node that is no forward, field by field; the
\* Face's name and the Image's url are required where the flags say so.
EncodingKeeps(n, e, faceName, imageUrl) ==
    CASE n.variant = "At" -> e = [type |-> "At", target |-> n.node.target_id]
      [] n.variant = "AtAll" -> e = [type |-> "AtAll"]
      [] n.variant = "Plain" -> e = [type |-> "Plain", text |-> n.node.text]
      [] n.variant = "Face" ->
            /\ e.type = "Face"
            /\ "faceId" \in DOMAIN e /\ e.faceId = n.node.id
            /\ e.isSuperFace = n.node.super_face
            /\ IF faceName
               THEN "name" \in DOMAIN e /\ e.name = n.node.name
               ELSE DOMAIN e = {"type", "faceId", "isSuperFace"}
      [] n.variant = "Image" ->
            /\ e.type = "Image"
            /\ "imageId" \in DOMAIN e /\ e.imageId = n.node.image_id
            /\ IF imageUrl
               THEN "url" \in DOMAIN e /\ e.url = n.node.url
               ELSE DOMAIN e = {"type", "imageId"}
      [] n.variant = "Xml" -> e = [type |-> "Xml", xml |-> n.node.contents]
      [] n.variant = "App" -> e = [type |-> "App", content |-> n.node.contents]
      [] n.variant = "Poke" -> e = [type |-> "Poke", name |-> n.node.name]
      [] n.variant = "Dice" -> e = [type |-> "Dice", value |-> n.node.value]
      [] n.variant = "MusicShare" ->
            e = [type |-> "MusicShare", kind |-> n.node.kind, title |-> n.node.title,
                 summary |-> n.node.summary, jumpUrl |-> n.node.jump_url,
                 pictureUrl |-> n.node.picture_url, musicUrl |-> n.node.music_url,
                 brief |-> n.node.brief]

\* C16 (as stated): the encoding of a converted node keeps every field, the
\* Face's id, name and super-face flag and the Image's id and url among them.
C16_KeepsEveryField ==
    (encoded # NotYet /\ incoming.variant # "Forward") =>
        EncodingKeeps(incoming, encoded, TRUE, TRUE)

\* C16 (amended): the encoding of a converted node keeps every field, except
\* that a Face is encoded by its id and super-face flag without its name and
\* an Image by its id alone.
C16_KeepsSupportedFields ==
    (encoded # NotYet /\ incoming.variant # "Forward") =>
        EncodingKeeps(incoming, encoded, FALSE, FALSE)

\* A named super face, converted and encoded.
C16_Witness ==
    /\ incoming = Node("Face", [id |-> 2, name |-> "smile", super_face |-> TRUE])
    /\ encoded = [type |-> "Face", faceId |-> 2, isSuperFace |-> TRUE]

\* The positions of the elements of a wire chain with the given type tag.
Indices(chain, tag) == {i \in 1..Len(chain) : chain[i].type = tag}

\* The zero-sentinel law: 0 is no id, any other value is that id.
ZeroSentinel(v) == IF v = 0 THEN None ELSE Some(v)

\* The id of an optional message handle.
HandleId(handle) == IF handle.some THEN Some(handle.value.id) ELSE None

\* C17: the id of a decoded message is the zero-sentinel reading of its
\* Source's wire id, the id of its quote that of the Quote's wire id, and the
\* id of the message of a friend or group recall event that of the event's
\* wire messageId.
C17_ZeroSentinel ==
    decoded # NotYet =>
        /\ (wire.kind = "chain" /\ decoded.ok) =>
              /\ \A i \in Indices(wire.value, "Source") :
                    AnyMessageId(decoded.value) = ZeroSentinel(wire.value[i].id)
              /\ \A i \in Indices(wire.value, "Quote") :
                    AnyQuotedMessageId(decoded.value.quote.value) = ZeroSentinel(wire.value[i].id)
        /\ wire.kind \in {"friendRecall", "groupRecall"} =>
              HandleId(decoded) = ZeroSentinel(wire.value.messageId)

\* A decoded message whose Source has the wire id 0 and whose Quote has a
\* negative wire id.
C17_Witness ==
    /\ wire.kind = "chain" /\ decoded # NotYet /\ decoded.ok
    /\ wire.value = <<WireSource(0, 100), WireQuote(-1, 2, 3, 4, <<WireAt>>), WirePlain>>
    /\ AnyMessageId(decoded.value) = None
    /\ decoded.value.time_secs = Some(100)
    /\ AnyQuotedMessageId(decoded.value.quote.value) = Some(-1)

RECURSIVE AtMostOnce(_)
\* A chain with at most one Source and at most one Quote, the origin of its
\* Quote being such a chain too.
AtMostOnce(chain) ==
    /\ Cardinality(Indices(chain, "Source")) <= 1
    /\ Cardinality(Indices(chain, "Quote")) <= 1
    /\ \A i \in Indices(chain, "Quote") : AtMostOnce(chain[i].origin)

\* The least element of a non-empty set of positions.
First(S) == CHOOSE i \in S : \A j \in S : i <= j

\* Every element of the chain has a tag of Impl.
KnownTags(chain) == \A i \in 1..Len(chain) : chain[i].type \in NodeTags

\* C18: a chain of elements with known tags decodes exactly when it, and the
\* origin of its quote, has at most one Source and at most one Quote, at
\* whatever positions; a decoded chain without Source has no id and no time,
\* one without Quote has no quote, and the time and quote decoded are those
\* of the first occurrence.
C18_SourceQuoteAtMostOnce ==
    (wire.kind = "chain" /\ KnownTags(wire.value) /\ decoded # NotYet) =>
        LET sources == Indices(wire.value, "Source")
            quotes == Indices(wire.value, "Quote")
        IN  /\ decoded.ok <=> AtMostOnce(wire.value)
            /\ ~decoded.ok =>
                  decoded \in {DecodeError("duplicate Source"), DecodeError("duplicate Quote")}
            /\ decoded.ok =>
                  /\ sources = {} =>
                        (decoded.value.id = None /\ decoded.value.time_secs = None)
                  /\ sources # {} =>
                        decoded.value.time_secs = Some(wire.value[First(sources)].time)
                  /\ quotes = {} => decoded.value.quote = None
                  /\ quotes # {} =>
                        /\ decoded.value.quote.some
                        /\ decoded.value.quote.value.node.sender_id =
                              wire.value[First(quotes)].senderId
                  /\ Len(decoded.value.nodes) =
                        Len(wire.value) - Cardinality(sources) - Cardinality(quotes)

\* A chain with a second Quote as its last element failed to decode.
C18_Witness ==
    /\ wire.kind = "chain"
    /\ Len(wire.value) = 3
    /\ wire.value[1].type = "Quote" /\ wire.value[2].type = "Plain"
    /\ wire.value[3].type = "Quote" /\ wire.value[3] # wire.value[1]
    /\ decoded = DecodeError("duplicate Quote")

\* The fields of a wire Quote a group quote may be addressed by.
GroupIdOf(q) == q.groupId
TargetIdOf(q) == q.targetId

\* A Quote with groupId 0 is decoded as a user quote with the Quote's
\* targetId as receiver and senderId as sender, one with another groupId as a
\* group quote with the Quote's senderId as sender and Context(q) as context.
QuoteDecodedBy(Context(_)) ==
    (wire.kind = "chain" /\ decoded # NotYet /\ decoded.ok) =>
        \A i \in Indices(wire.value, "Quote") :
            LET q == wire.value[i]
                d == decoded.value.quote.value
            IN  IF q.groupId = 0
                THEN /\ d.variant = "User"
                     /\ d.node.receiver_id = q.targetId
                     /\ d.node.sender_id = q.senderId
                ELSE /\ d.variant = "Group"
                     /\ d.node.sender_id = q.senderId
                     /\ d.node.context_id = Context(q)

\* C19 (as stated): the quote's variant is chosen by groupId alone, and a
\* group quote is addressed to the group named by groupId.
C19_GroupFromGroupId == QuoteDecodedBy(GroupIdOf)

\* C19 (amended): the quote's variant is chosen by groupId alone, and a group
\* quote is addressed to the group named by the Quote's targetId.
C19_GroupFromTargetId == QuoteDecodedBy(TargetIdOf)

\* A decoded group quote whose Quote named group 4 and target 3.
C19_Witness ==
    /\ wire.kind = "chain" /\ decoded # NotYet /\ decoded.ok
    /\ wire.value = <<WireQuote(-1, 2, 3, 4, <<WireAt>>)>>
    /\ decoded.value.quote.value.variant = "Group"
    /\ decoded.value.quote.value.node.context_id = 3

\* The key is set to a value.
Present(w) == w \notin {Absent, Null}

\* C20: with only friend set the source decodes to Friend of that friend,
\* with only member set to Member of that member, with neither to Console,
\* and with both the decode fails.
C20_CommandSource ==
    (wire.kind = "commandSource" /\ decoded # NotYet) =>
        LET friend == Present(wire.value.friend)
            member == Present(wire.value.member)
        IN  /\ (friend /\ member) =>
                  decoded = DecodeError("at most one of friend and member can be present")
            /\ (friend /\ ~member) =>
                  decoded = Ok(Node("Friend", DeserializeFriend(wire.value.friend)))
            /\ (~friend /\ member) =>
                  decoded = Ok(Node("Member", DeserializeMember(wire.value.member)))
            /\ (~friend /\ ~member) =>
                  (decoded.ok /\ decoded.value.variant = "Console")

\* A source with both keys set was refused.
C20_Witness ==
    /\ wire.kind = "commandSource"
    /\ wire.value = [friend |-> WireFriend, member |-> WireMember]
    /\ decoded # NotYet /\ ~decoded.ok

\* The detail fields a subject of the kind must carry.
DetailFields(kind) ==
    IF kind = "Group" THEN {"id", "name", "permission"} ELSE {"id", "nickname", "remark"}

\* C21: a NudgeEvent envelope decodes to the FriendNudge, GroupNudge or
\* StrangerNudge event as its subject.kind is Friend, Group or Stranger, with
\* the subject's detail record as context, from_id from fromId and to_id
\* from target; with any other subject.kind the decode fails.
C21_NudgeDecode ==
    (wire.kind = "envelope" /\ wire.value.type = "NudgeEvent" /\ decoded # NotYet) =>
        LET w == wire.value
            subject == w.subject
        IN  /\ subject.kind \notin {"Friend", "Group", "Stranger"} => ~decoded.ok
            /\ (/\ subject.kind \in {"Friend", "Group", "Stranger"}
                /\ DetailFields(subject.kind) \subseteq DOMAIN subject) => decoded.ok
            /\ decoded.ok =>
                  LET event == decoded.value.value
                  IN  /\ decoded.value.kind = "Event"
                      /\ event.variant =
                            CASE subject.kind = "Friend" -> "FriendNudge"
                              [] subject.kind = "Group" -> "GroupNudge"
                              [] subject.kind = "Stranger" -> "StrangerNudge"
                      /\ event.node.context.id = subject.id
                      /\ subject.kind = "Group" => event.node.context.name = subject.name
                      /\ subject.kind # "Group" =>
                            /\ event.node.context.nickname = subject.nickname
                            /\ event.node.context.remark = subject.remark
                      /\ event.node.from_id = w.fromId
                      /\ event.node.to_id = w.target
                      /\ event.node.action = w.action /\ event.node.suffix = w.suffix

\* A nudge of a group, sent to another id than the sender's, was decoded to
\* the group nudge event with the group as context.
C21_Witness ==
    /\ wire.kind = "envelope" /\ wire.value.type = "NudgeEvent"
    /\ wire.value.subject.kind = "Group" /\ wire.value.target # wire.value.fromId
    /\ decoded # NotYet /\ decoded.ok
    /\ decoded.value.value.variant = "GroupNudge"
    /\ decoded.value.value.node.context.name = "group"

\* The Message variant and the context that a message envelope is to yield.
MatchingMessage(w) ==
    CASE w.type = "FriendMessage" ->
             [variant |-> "Friend", context |-> DeserializeFriend(w.sender)]
      [] w.type = "FriendSyncMessage" ->
             [variant |-> "FriendSync", context |-> DeserializeFriend(w.subject)]
      [] w.type = "GroupMessage" ->
             [variant |-> "Group", context |-> DeserializeGroup(w.sender.group)]
      [] w.type = "GroupSyncMessage" ->
             [variant |-> "GroupSync", context |-> DeserializeGroup(w.subject)]
      [] w.type = "TempMessage" ->
             [variant |-> "Temp", context |-> DeserializeMember(w.sender)]
      [] w.type = "TempSyncMessage" ->
             [variant |-> "TempSync", context |-> DeserializeMember(w.subject)]
      [] w.type = "StrangerMessage" ->
             [variant |-> "Stranger", context |-> DeserializeStranger(w.sender)]
      [] w.type = "StrangerSyncMessage" ->
             [variant |-> "StrangerSync", context |-> DeserializeStranger(w.subject)]
      [] w.type = "OtherClientMessage" ->
             [variant |-> "OtherClient", context |-> DeserializeOtherClient(w.sender)]

\* The variants that the envelopes of one tag decode to.
VariantsOf(tag) ==
    {MessageOrEventDeserialize(e).value.value.variant :
        e \in {x \in WireEnvelopes : x.type = tag /\ MessageOrEventDeserialize(x).ok}}

\* C22: an envelope decodes only if its tag is one of the tags of Impl, and a
\* chain only if the tag of each element is one of the tags of its Impl, by
\* exact match; an envelope with one of the nine message tags that decodes
\* yields the Message of that tag with its context, one with any other known
\* tag yields an Event; every decoded node has the variant of its tag; and
\* NudgeEvent is the one tag whose envelopes decode to more than one variant.
C22_ExactTagDispatch ==
    /\ (wire.kind = "envelope" /\ decoded # NotYet) =>
          LET w == wire.value
          IN  /\ w.type \notin ImplTags => decoded = DecodeError("unknown variant")
              /\ (decoded.ok /\ w.type \in MessageTags) =>
                    /\ decoded.value.kind = "Message"
                    /\ decoded.value.value.variant = MatchingMessage(w).variant
                    /\ MessageContext(decoded.value.value) = MatchingMessage(w).context
              /\ (w.type \in ImplTags \ MessageTags /\ w.type # "NudgeEvent") =>
                    decoded.ok /\ decoded.value.kind = "Event"
              /\ (decoded.ok /\ w.type = "NudgeEvent") => decoded.value.kind = "Event"
              /\ \A tag \in ImplTags :
                    Cardinality(VariantsOf(tag)) > 1 <=> tag = "NudgeEvent"
    /\ (wire.kind = "chain" /\ decoded # NotYet) =>
          /\ ~KnownTags(wire.value) => decoded = DecodeError("unknown variant")
          /\ decoded.ok =>
                LET kept == SelectSeq(wire.value, LAMBDA e : e.type \notin {"Source", "Quote"})
                IN  /\ Len(decoded.value.nodes) = Len(kept)
                    /\ \A i \in 1..Len(kept) : decoded.value.nodes[i].variant = kept[i].type

\* An envelope tagged with a known tag in another case failed to decode.
C22_Witness ==
    /\ wire.kind = "envelope" /\ wire.value.type = "botOnlineEvent"
    /\ decoded = DecodeError("unknown variant")

\* The elements of a chain that decode to nodes, in order.
NodeElements(chain) == SelectSeq(chain, LAMBDA e : e.type \notin {"Source", "Quote"})

\* C23: the id of a decoded File node begins with '/'; it is the id on the
\* wire if that begins with '/', and otherwise, also for the empty id, the id
\* on the wire after one '/'; normalizing the decoded id again gives the same
\* id.
C23_FileIdNormalized ==
    (wire.kind = "chain" /\ decoded # NotYet /\ decoded.ok) =>
        \A i \in 1..Len(NodeElements(wire.value)) :
            NodeElements(wire.value)[i].type = "File" =>
                LET id == NodeElements(wire.value)[i].id
                    out == decoded.value.nodes[i].node.id
                IN  /\ Len(out) >= 1 /\ out[1] = "/"
                    /\ (Len(id) >= 1 /\ id[1] = "/") => out = id
                    /\ ~(Len(id) >= 1 /\ id[1] = "/") =>
                          /\ Len(out) = Len(id) + 1
                          /\ \A k \in 1..Len(id) : out[k + 1] = id[k]
                    /\ DeserializeFileId(out) = out

\* A File node with the empty id, alone in its chain, was decoded to one with
\* the id "/".
C23_Witness ==
    /\ wire.kind = "chain" /\ Len(wire.value) = 1
    /\ wire.value[1].type = "File" /\ wire.value[1].id = <<>>
    /\ decoded # NotYet /\ decoded.ok
    /\ decoded.value.nodes[1].node.id = <<"/">>

\* C24: the root locator Id("") encodes without an id field; an Id of a
\* non-empty id encodes with the id field holding that id and no path field;
\* a Path encodes with the path field holding the path, also the empty one,
\* and no id field; no encoding has both fields.
C24_FileLocatorEncode ==
    (args.kind = "fileArgs" /\ encoded # NotYet) =>
        LET file == args.value.file
        IN  /\ file = FileLocatorRoot => DOMAIN encoded = {"target"}
            /\ (file.variant = "Id" /\ file.node # <<>>) =>
                  (DOMAIN encoded = {"id", "target"} /\ encoded.id = file.node)
            /\ file.variant = "Path" =>
                  (DOMAIN encoded = {"path", "target"} /\ encoded.path = file.node)
            /\ ~({"id", "path"} \subseteq DOMAIN encoded)

\* The arguments naming the root directory were encoded to the target alone.
C24_Witness ==
    /\ args.kind = "fileArgs" /\ args.value.file = FileLocatorRoot
    /\ encoded # NotYet /\ DOMAIN encoded = {"target"}

\* The field is in the object, set or null.
Emitted(object, field) == field \in DOMAIN object

\* The fields of ForwardDisplay.
DisplayFields == {"brief", "preview", "source", "summary", "title"}

\* C25: an unset optional field is not in the encoded object, and so is not
\* null there: the display of a Forward node, each field of a display, the
\* time of a custom forwarded message, the quote of message contents, and
\* the name and allowMemberInvite of a group configuration update.
C25_UnsetFieldsAbsent ==
    encoded # NotYet =>
        /\ args.kind = "node" =>
              LET n == args.value.node
              IN  /\ ~n.display.some => ~Emitted(encoded, "display")
                  /\ n.display.some =>
                        \A f \in DisplayFields :
                            ~n.display.value[f].some => ~Emitted(encoded.display, f)
                  /\ \A i \in 1..Len(n.messages) :
                        (n.messages[i].variant = "Custom" /\ ~n.messages[i].node.time.some) =>
                            ~Emitted(encoded.nodeList[i], "time")
        /\ args.kind = "sendMessage" =>
              (~args.value.contents.quote.some => ~Emitted(encoded, "quote"))
        /\ args.kind = "updateGroupConfig" =>
              /\ ~args.value.config.name.some => ~Emitted(encoded.config, "name")
              /\ ~args.value.config.allow_member_invite.some =>
                    ~Emitted(encoded.config, "allowMemberInvite")

\* C26: every key of an encoded object is in lower camel case: those of a
\* Forward node and of its forwarded messages, which are senderId, time,
\* senderName and messageChain for a custom message, messageRef with target
\* and messageId for a reference with context and messageId for a reference
\* by id alone, and those of the argument records.
C26_LowerCamelKeys ==
    encoded # NotYet =>
        /\ args.kind = "node" =>
              /\ DOMAIN encoded \subseteq {"type", "nodeList", "display"}
              /\ \A i \in 1..Len(args.value.node.messages) :
                    LET m == args.value.node.messages[i]
                        e == encoded.nodeList[i]
                    IN  /\ m.variant = "Custom" =>
                              /\ DOMAIN e \subseteq
                                    {"senderId", "time", "senderName", "messageChain"}
                              /\ \A j \in 1..Len(e.messageChain) :
                                    DOMAIN e.messageChain[j] = {"type", "text"}
                        /\ (m.variant = "Ref" /\ m.node.context.some) =>
                              /\ DOMAIN e = {"messageRef"}
                              /\ DOMAIN e.messageRef = {"target", "messageId"}
                        /\ (m.variant = "Ref" /\ ~m.node.context.some) =>
                              DOMAIN e = {"messageId"}
        /\ args.kind = "sendMessage" =>
              DOMAIN encoded \subseteq {"target", "quote", "messageChain"}
        /\ args.kind = "updateGroupConfig" =>
              /\ DOMAIN encoded = {"target", "config"}
              /\ DOMAIN encoded.config \subseteq {"name", "allowMemberInvite"}
        /\ args.kind = "fileArgs" => DOMAIN encoded \subseteq {"id", "path", "target"}

\* C27: a response body whose code is a non-zero integer is returned as the
\* Mirai error with that code and the body's message, whatever shape the
\* call expects and whether or not the body has that shape; a body whose
\* code is 0 is not returned as a Mirai error.
C27_RemoteRejection ==
    (wire.kind = "response" /\ decoded # NotYet) =>
        LET body == wire.value.body
        IN  /\ (body.code.some /\ body.code.value # 0) =>
                  /\ ~decoded.ok
                  /\ decoded.error.variant = "Mirai"
                  /\ decoded.error.node.code = body.code.value
                  /\ body.msg.some => decoded.error.node.message = body.msg.value
            /\ (body.code.some /\ body.code.value = 0) =>
                  (decoded.ok \/ decoded.error.variant # "Mirai")

\* The answer in flight is a batch with a record that does not decode.
BadBatchInFlight ==
    /\ pc = "fetching" /\ resp.kind = "body" /\ resp.code = 0
    /\ \E i \in 1..Len(resp.data) : resp.data[i] = BadRecord

\* C28: when the task handles a fetched batch with a record that does not
\* decode, it calls on_error once, with the decode error, goes to the poll
\* wait with no event in hand and leaves the channel as it is: no record of
\* the batch, before or after the bad one, is handed off; and nothing the
\* consumer can receive is a record that did not decode.
C28_BatchAllOrNothing ==
    [][/\ (BadBatchInFlight /\ resp' # resp) =>
            /\ errlog' = Append(errlog, "Json")
            /\ pc' = "wait"
            /\ events = <<>> /\ events' = <<>>
            /\ chan' = chan /\ received' = received
       /\ \A i \in 1..Len(received' \o chan' \o events') :
            (received' \o chan' \o events')[i] # BadRecord
      ]_vars

\* After a batch was received, a batch with a record that does not decode was
\* fetched: the sink has the one decode error, the task is in the poll wait,
\* and the consumer has the first batch and nothing more.
C28_Witness ==
    /\ errlog = <<"Json">> /\ failed = <<"Json">>
    /\ pc = "wait" /\ events = <<>> /\ chan = <<>>
    /\ received = <<"a">> /\ produced = <<"a">>

\* C29: once the channel is closed or dropped, every hand-off step of the
\* task drops the first event in hand: the channel and what the consumer has
\* received stay as they are and on_error is not called; and on_error is
\* called only by the step that handles a failed fetch, with its error.
C29_ClosedHandOffDiscards ==
    [][/\ (Closed /\ pc = "send" /\ events' # events) =>
            /\ events' = Tail(events)
            /\ chan' = chan /\ received' = received
            /\ errlog' = errlog
            /\ pc' \in {"send", "fetching"}
       /\ errlog' # errlog =>
            /\ pc = "fetching" /\ ErrInFlight # <<>>
            /\ errlog' = errlog \o ErrInFlight
      ]_vars

\* The consumer closed the channel while the task held a batch of two events:
\* both were dropped, none was received and the sink was not called.
C29_Witness ==
    /\ rx = "closed" /\ produced = <<"a", "b">>
    /\ received = <<>> /\ chan = <<>> /\ events = <<>>
    /\ pc = "fetching" /\ errlog = <<>> /\ failed = <<>>

\* C30: the step that answers a push with the empty success status puts its
\* payload on the output channel, also after the consumer closed or dropped
\* the channel while the request was in flight.
C30_AcknowledgedIsPlaced ==
    [][\A r \in ReqIds :
          (reqs[r].st = "inflight" /\ reqs'[r].st = "done"
           /\ reqs'[r].status = StatusNoContent) =>
              (Len(wchan') = Len(wchan) + 1 /\ wchan'[Len(wchan')].req = r)
      ]_vars

====
